---- MODULE Spec2Model ----
(***************************************************************************)
(* RobotVisualizer: the JSON robot-data normalisation layer                *)
(* (src/utils/data_processor.py) and the upload handling of the Streamlit  *)
(* application (src/app.py), as a state machine.                           *)
(*                                                                         *)
(* A parsed JSON value is a tagged record:                                 *)
(*   null  [t |-> "null"]            bool  [t |-> "bool", b |-> BOOLEAN]   *)
(*   int   [t |-> "num", n |-> Int]  str   [t |-> "str", s |-> STRING]     *)
(*   list  [t |-> "list", items |-> sequence of values]                    *)
(*   dict  [t |-> "dict", kv |-> sequence of <<key, value>>], in the       *)
(*         insertion order json.loads keeps.                               *)
(* A Python number computed by the code is [ty |-> "int" or "float",       *)
(* h |-> its value in half units], so that 2 and 2.0 are told apart and    *)
(* secs + nsecs / 1e9 is exact for the nsecs of the modelled documents.    *)
(* A call that may raise returns Ok(v) or Raise(exception name).           *)
(***************************************************************************)
EXTENDS Integers, Sequences, FiniteSets, TLC

VARIABLES
    pc,        \* position of the script run in the upload handling
    content,   \* the bytes read from the uploaded file
    vret,      \* what validate_json_data(content) did: Ok(bool) or Raise
    result,    \* what process_robot_data(content) did: Ok(dict) or Raise
    session,   \* st.session_state
    notice     \* the sidebar message of this run

vars == <<pc, content, vret, result, session, notice>>

(***************************************************************************)
(* Bounds of the model.                                                    *)
(***************************************************************************)
MaxMsgs == 3

(***************************************************************************)
(* Outcomes of calls.                                                      *)
(***************************************************************************)
Ok(v) == [ok |-> TRUE, v |-> v]
Raise(e) == [ok |-> FALSE, exc |-> e]
NotCalled == Raise("not called")
\* r, and on a return K of what it returned: a raise ends the enclosing call
Then(r, K(_)) == IF r.ok THEN K(r.v) ELSE r

Min(a, b) == IF a <= b THEN a ELSE b

(***************************************************************************)
(* JSON values.                                                            *)
(***************************************************************************)
JNull == [t |-> "null"]
PyNone == JNull
JBool(b) == [t |-> "bool", b |-> b]
JNum(n) == [t |-> "num", n |-> n]
JStr(s) == [t |-> "str", s |-> s]
JList(items) == [t |-> "list", items |-> items]
JObj(kv) == [t |-> "dict", kv |-> kv]

IsDict(v) == v.t = "dict"
IsList(v) == v.t = "list"

\* key in d, d[key] for a dict d
HasKey(d, k) == \E i \in 1..Len(d.kv) : d.kv[i][1] = k
Get(d, k) == d.kv[CHOOSE i \in 1..Len(d.kv) : d.kv[i][1] = k][2]

\* sub in s, s.startswith(p) for Python strings
Contains(s, sub) ==
    \E i \in 0..(Len(s) - Len(sub)) : SubSeq(s, i + 1, i + Len(sub)) = sub
StartsWith(s, p) == Len(s) >= Len(p) /\ SubSeq(s, 1, Len(p)) = p

(***************************************************************************)
(* Python's numbers, in half units.                                        *)
(***************************************************************************)
PyInt(n) == [ty |-> "int", h |-> 2 * n]
PyFloatOf(h) == [ty |-> "float", h |-> h]
NanosPerSec == 1000000000
\* x / 1e9 for a float x given in half units (exact when x is a multiple of 5e8)
DivNanos(h) == h \div NanosPerSec

\* strings of decimal digits and their values
Digits == <<"0", "1", "2", "3", "4", "5", "6", "7", "8", "9">>
IsDigitString(s) ==
    Len(s) > 0 /\ \A i \in 1..Len(s) : \E d \in 1..10 : Digits[d] = SubSeq(s, i, i)
RECURSIVE DigitsVal(_)
DigitsVal(s) ==
    IF Len(s) = 0 THEN 0
    ELSE 10 * DigitsVal(SubSeq(s, 1, Len(s) - 1))
         + (CHOOSE d \in 1..10 : Digits[d] = SubSeq(s, Len(s), Len(s))) - 1

\* float(x)
PyFloat(x) ==
    CASE x.t = "num" -> Ok(PyFloatOf(2 * x.n))
      [] x.t = "bool" -> Ok(PyFloatOf(IF x.b THEN 2 ELSE 0))
      [] x.t = "str" -> IF IsDigitString(x.s) THEN Ok(PyFloatOf(2 * DigitsVal(x.s)))
                        ELSE Raise("ValueError")
      [] OTHER -> Raise("TypeError")

\* int(x)
PyIntOf(x) ==
    CASE x.t = "num" -> Ok(x.n)
      [] x.t = "bool" -> Ok(IF x.b THEN 1 ELSE 0)
      [] x.t = "str" -> IF IsDigitString(x.s) THEN Ok(DigitsVal(x.s))
                        ELSE Raise("ValueError")
      [] OTHER -> Raise("TypeError")

\* isinstance(x, (int, float)): bool is a subclass of int
IsNumber(x) == x.t \in {"num", "bool"}

\* bool(x)
Truthy(x) ==
    CASE x.t = "null" -> FALSE
      [] x.t = "bool" -> x.b
      [] x.t = "num" -> x.n # 0
      [] x.t = "str" -> x.s # ""
      [] x.t = "list" -> Len(x.items) > 0
      [] OTHER -> Len(x.kv) > 0

\* key in x, for a str key and any x
PyIn(k, x) ==
    CASE x.t = "dict" -> Ok(HasKey(x, k))
      [] x.t = "str" -> Ok(Contains(x.s, k))
      [] x.t = "list" -> Ok(\E i \in 1..Len(x.items) : x.items[i] = JStr(k))
      [] OTHER -> Raise("TypeError")

\* x[key], for a str key and any x
PyGetItem(x, k) ==
    CASE x.t = "dict" -> IF HasKey(x, k) THEN Ok(Get(x, k)) ELSE Raise("KeyError")
      [] OTHER -> Raise("TypeError")

\* repr(x) and str(x) of a parsed value
RECURSIVE PyRepr(_)
RECURSIVE ReprItems(_, _)
RECURSIVE ReprPairs(_, _)
ReprItems(items, i) ==
    IF i > Len(items) THEN ""
    ELSE (IF i > 1 THEN ", " ELSE "") \o PyRepr(items[i]) \o ReprItems(items, i + 1)
ReprPairs(kv, i) ==
    IF i > Len(kv) THEN ""
    ELSE (IF i > 1 THEN ", " ELSE "") \o "'" \o kv[i][1] \o "': " \o PyRepr(kv[i][2])
         \o ReprPairs(kv, i + 1)
PyRepr(x) ==
    CASE x.t = "null" -> "None"
      [] x.t = "bool" -> IF x.b THEN "True" ELSE "False"
      [] x.t = "num" -> ToString(x.n)
      [] x.t = "str" -> "'" \o x.s \o "'"
      [] x.t = "list" -> "[" \o ReprItems(x.items, 1) \o "]"
      [] OTHER -> "{" \o ReprPairs(x.kv, 1) \o "}"
PyStr(x) == IF x.t = "str" THEN x.s ELSE PyRepr(x)

(***************************************************************************)
(* Uploaded bytes: text that json.loads parses to `data`, or text it       *)
(* rejects.                                                                *)
(***************************************************************************)
Bytes(data) == [parses |-> TRUE, data |-> data]
Garbage == [parses |-> FALSE]
json_loads(c) == IF c.parses THEN Ok(c.data) ELSE Raise("JSONDecodeError")

(***************************************************************************)
(* validate_json_data                                                      *)
(***************************************************************************)
SniffLimit == 10
required_elements == <<"metadata", "topics", "messages">>
robot_data_indicators == <<"pose", "position", "orientation", "twist", "joint_states">>

AllDicts(data) == \A i \in 1..Len(data.items) : IsDict(data.items[i])
\* faulty variant: any(...) over all of data instead of data[:10]
ros_bridge_format_unsliced(data) ==
    \E i \in 1..Len(data.items) :
        /\ HasKey(data.items[i], "op")
        /\ HasKey(data.items[i], "topic")
        /\ HasKey(data.items[i], "msg")
ros_bridge_format(data) ==
    \E i \in 1..Min(SniffLimit, Len(data.items)) :
        /\ HasKey(data.items[i], "op")
        /\ HasKey(data.items[i], "topic")
        /\ HasKey(data.items[i], "msg")

\* the body of the try block
validate_rules(data) ==
    IF IsList(data) /\ Len(data.items) > 0 /\ AllDicts(data) /\ ros_bridge_format(data)
    THEN Ok(TRUE)
    ELSE IF IsDict(data)
            /\ \E e \in 1..Len(required_elements) : HasKey(data, required_elements[e])
    THEN Ok(TRUE)
    ELSE IF \E k \in 1..Len(robot_data_indicators) :
                Contains(PyStr(data), robot_data_indicators[k])
    THEN Ok(TRUE)
    ELSE Ok(FALSE)
validate_try(c) == Then(json_loads(c), validate_rules)

\* except Exception: return False
Except(r, v) == IF r.ok THEN r ELSE Ok(v)
\* faulty variant: the try block without its except
validate_json_data_uncaught(c) == validate_try(c)
validate_json_data(c) == Except(validate_try(c), FALSE)

(***************************************************************************)
(* Iteration, min and max as the extractors use them.  PyMin and PyMax are *)
(* exact for a single value and for numbers; the modelled documents hold   *)
(* no other timestamps.                                                    *)
(***************************************************************************)
\* for v in x
PyIter(x) ==
    CASE x.t = "list" -> Ok(x.items)
      [] x.t = "dict" -> Ok([i \in 1..Len(x.kv) |-> JStr(x.kv[i][1])])
      [] x.t = "str" -> Ok([i \in 1..Len(x.s) |-> JStr(SubSeq(x.s, i, i))])
      [] OTHER -> Raise("TypeError")

\* len(x)
PyLen(x) ==
    CASE x.t = "list" -> Ok(Len(x.items))
      [] x.t = "dict" -> Ok(Len(x.kv))
      [] x.t = "str" -> Ok(Len(x.s))
      [] OTHER -> Raise("TypeError")

\* a parsed value as the Python object the code passes on
ToPy(x) == IF x.t = "num" THEN PyInt(x.n) ELSE x
IsPyNum(v) == "h" \in DOMAIN v

\* min(seq), max(seq): the first smallest / largest element
PyMin(seq) ==
    IF Len(seq) = 1 THEN Ok(seq[1])
    ELSE IF \A i \in 1..Len(seq) : IsPyNum(seq[i])
    THEN Ok(seq[CHOOSE i \in 1..Len(seq) :
                  /\ \A j \in 1..Len(seq) : seq[i].h <= seq[j].h
                  /\ \A j \in 1..(i - 1) : seq[j].h > seq[i].h])
    ELSE Raise("TypeError")
PyMax(seq) ==
    IF Len(seq) = 1 THEN Ok(seq[1])
    ELSE IF \A i \in 1..Len(seq) : IsPyNum(seq[i])
    THEN Ok(seq[CHOOSE i \in 1..Len(seq) :
                  /\ \A j \in 1..Len(seq) : seq[i].h >= seq[j].h
                  /\ \A j \in 1..(i - 1) : seq[j].h < seq[i].h])
    ELSE Raise("TypeError")

\* x[k] when x is a dict that has k, None otherwise
Part(x, k) == IF IsDict(x) /\ HasKey(x, k) THEN Get(x, k) ELSE JNull
HasIn(x, k) == IsDict(x) /\ HasKey(x, k)

(***************************************************************************)
(* Python dicts the code builds: sequences of <<key, value>> in insertion  *)
(* order.  d[k] = v replaces the value of a present key in place and       *)
(* appends an absent one.                                                  *)
(***************************************************************************)
DHas(kv, k) == \E i \in 1..Len(kv) : kv[i][1] = k
DGet(kv, k) == kv[CHOOSE i \in 1..Len(kv) : kv[i][1] = k][2]
DSet(kv, k, v) ==
    IF DHas(kv, k)
    THEN [i \in 1..Len(kv) |-> IF kv[i][1] = k THEN <<k, v>> ELSE kv[i]]
    ELSE Append(kv, <<k, v>>)
\* if c: d[k] = v
SetIf(c, kv, k, v) == IF c THEN DSet(kv, k, v) ELSE kv
\* if k not in d: d[k] = []
DEnsure(kv, k) == IF DHas(kv, k) THEN kv ELSE Append(kv, <<k, <<>>>>)
\* d[k].append(x)
DAppend(kv, k, x) == DSet(kv, k, Append(DGet(kv, k), x))
\* len(d[k]) when k is there, 0 otherwise
DCount(kv, k) == IF DHas(kv, k) THEN Len(DGet(kv, k)) ELSE 0
Hashable(x) == x.t \notin {"list", "dict"}

\* sorted(seq, key=...) and list.sort(key=...): stable, keys[i] is the key of seq[i]
PySorted(seq, keys) ==
    LET n == Len(seq)
        rank(i) == 1 + Cardinality({j \in 1..n :
                        keys[j] < keys[i] \/ (keys[j] = keys[i] /\ j < i)})
    IN [p \in 1..n |-> seq[CHOOSE i \in 1..n : rank(i) = p]]

\* the test both passes over a ROSBridge list apply to a message
IsPublish(msg_data) ==
    /\ HasKey(msg_data, "op")
    /\ Get(msg_data, "op") = JStr("publish")
    /\ HasKey(msg_data, "topic")
    /\ HasKey(msg_data, "msg")

\* the ROSBridge test every extractor starts with
IsRosList(data) == IsList(data) /\ Len(data.items) > 0 /\ AllDicts(data)

(***************************************************************************)
(* The header timestamp of a message body (a dict):                        *)
(*   if "header" in m and "stamp" in m["header"]:                          *)
(*       stamp = m["header"]["stamp"]                                      *)
(*       if "secs" in stamp and "nsecs" in stamp:                          *)
(*           ts = float(stamp["secs"]) + float(stamp["nsecs"]) / 1e9       *)
(* Ok([has |-> FALSE]) when a test fails, Ok([has |-> TRUE, ts |-> ..])    *)
(* when the sum is computed, Raise when a step raises.                     *)
(***************************************************************************)
NoStamp == Ok([has |-> FALSE])
stamp_seconds(stamp) ==
    Then(PyIn("secs", stamp), LAMBDA hasSecs :
    IF ~hasSecs THEN NoStamp ELSE
    Then(PyIn("nsecs", stamp), LAMBDA hasNsecs :
    IF ~hasNsecs THEN NoStamp ELSE
    Then(PyGetItem(stamp, "secs"), LAMBDA secs :
    Then(PyFloat(secs), LAMBDA fsecs :
    Then(PyGetItem(stamp, "nsecs"), LAMBDA nsecs :
    Then(PyFloat(nsecs), LAMBDA fnsecs :
    Ok([has |-> TRUE, ts |-> PyFloatOf(fsecs.h + DivNanos(fnsecs.h))])))))))

header_stamp(m) ==
    IF ~HasKey(m, "header") THEN NoStamp ELSE
    Then(PyIn("stamp", Get(m, "header")), LAMBDA hasStamp :
    IF ~hasStamp THEN NoStamp
    ELSE Then(PyGetItem(Get(m, "header"), "stamp"), stamp_seconds))

\* timestamp = 0, replaced by the header timestamp when there is one
TimestampOr0(st) == IF st.has THEN st.ts ELSE PyInt(0)

(***************************************************************************)
(* extract_time_range                                                      *)
(***************************************************************************)
DefaultMin == 0
DefaultMax == 100

\* lines 102-109, for one item of the list
tr_stamp(msg_data) ==
    IF HasKey(msg_data, "msg") /\ IsDict(Get(msg_data, "msg"))
    THEN header_stamp(Get(msg_data, "msg"))
    ELSE NoStamp

\* the loop over the ROSBridge messages: timestamps.append(ts), in order
RECURSIVE tr_header_timestamps(_, _, _)
tr_header_timestamps(items, i, timestamps) ==
    IF i > Len(items) THEN Ok(timestamps) ELSE
    Then(tr_stamp(items[i]), LAMBDA st :
    tr_header_timestamps(items, i + 1,
        IF st.has THEN Append(timestamps, st.ts) ELSE timestamps))

\* the loop over data["messages"]: the "timestamp" values, in order
RECURSIVE tr_message_timestamps(_, _, _)
tr_message_timestamps(msgs, i, timestamps) ==
    IF i > Len(msgs) THEN Ok(timestamps) ELSE
    Then(PyIn("timestamp", msgs[i]), LAMBDA has :
    IF ~has THEN tr_message_timestamps(msgs, i + 1, timestamps) ELSE
    Then(PyGetItem(msgs[i], "timestamp"), LAMBDA ts :
    tr_message_timestamps(msgs, i + 1, Append(timestamps, ToPy(ts)))))

\* the loop over data["time_series"]: times.extend(series["times"])
RECURSIVE tr_series_times(_, _, _)
tr_series_times(series, i, times) ==
    IF i > Len(series) THEN Ok(times) ELSE
    Then(PyIn("times", series[i]), LAMBDA has :
    IF ~has THEN tr_series_times(series, i + 1, times) ELSE
    Then(PyGetItem(series[i], "times"), LAMBDA got :
    Then(PyIter(got), LAMBDA it :
    tr_series_times(series, i + 1, times \o [k \in 1..Len(it) |-> ToPy(it[k])]))))

\* (min(ts), max(ts)), or the defaults when ts is empty
tr_range_of(ts) ==
    IF Len(ts) = 0 THEN Ok(<<PyInt(DefaultMin), PyInt(DefaultMax)>>)
    ELSE Then(PyMin(ts), LAMBDA lo : Then(PyMax(ts), LAMBDA hi : Ok(<<lo, hi>>)))

\* for x in data[key], handed to Loop
OverItems(data, key, Loop(_)) ==
    Then(PyGetItem(data, key), LAMBDA got : Then(PyIter(got), Loop))

\* lines 116-138: the standard format and the alternative time representation
tr_generic(data) ==
    Then(PyIn("messages", data), LAMBDA hasMessages :
    IF hasMessages
    THEN OverItems(data, "messages", LAMBDA msgs :
             Then(tr_message_timestamps(msgs, 1, <<>>), tr_range_of))
    ELSE Then(PyIn("time_series", data), LAMBDA hasSeries :
         IF hasSeries
         THEN OverItems(data, "time_series", LAMBDA series :
                  Then(tr_series_times(series, 1, <<>>), tr_range_of))
         ELSE Ok(<<PyInt(DefaultMin), PyInt(DefaultMax)>>)))

extract_time_range(data) ==
    IF IsRosList(data)
    THEN Then(tr_header_timestamps(data.items, 1, <<>>), LAMBDA timestamps :
         IF Len(timestamps) > 0 THEN tr_range_of(timestamps) ELSE tr_generic(data))
    ELSE tr_generic(data)

(***************************************************************************)
(* extract_time_series.  A point (entry) is a Python dict: a sequence of   *)
(* <<field name, value>>.  time_series is a dict from topic to points.     *)
(* float(x) of a string is modelled for strings of digits and for strings  *)
(* that are no number; the modelled documents hold no others.              *)
(***************************************************************************)
CapabilitiesTopic == "/capabilities/events"

\* lines 166-175: the time of a grouped message
ts_timestamp(st, count) ==
    IF st.has /\ st.ts.h # 0 THEN st.ts ELSE PyInt(count)

\* lines 160-179, for one publish message
ts_collect(topic_messages, topic, msg_content) ==
    IF ~Hashable(topic) THEN Raise("TypeError") ELSE
    Then(IF IsDict(msg_content) THEN header_stamp(msg_content) ELSE NoStamp, LAMBDA st :
    Ok(DAppend(DEnsure(topic_messages, topic), topic,
               [time |-> ts_timestamp(st, DCount(topic_messages, topic)),
                msg |-> msg_content])))

\* first pass: topic_messages, in first-appearance order of the topics
RECURSIVE ts_group(_, _, _)
ts_group(items, i, topic_messages) ==
    IF i > Len(items) THEN Ok(topic_messages)
    ELSE IF ~IsPublish(items[i]) THEN ts_group(items, i + 1, topic_messages)
    ELSE Then(ts_collect(topic_messages, Get(items[i], "topic"), Get(items[i], "msg")),
              LAMBDA grouped : ts_group(items, i + 1, grouped))

\* messages.sort(key=lambda x: x["time"])
ts_sort(messages) == PySorted(messages, [i \in 1..Len(messages) |-> messages[i].time.h])

\* {"index": message_index, "time": msg["time"]}
ts_entry(msg, message_index) == <<<<"index", PyInt(message_index)>>, <<"time", msg.time>>>>

\* 1.0 if x else 0.0
Flag(x) == PyFloatOf(IF Truthy(x) THEN 2 ELSE 0)

\* float(target[k]) when k is in target
ts_float_field(target, k) ==
    IF HasKey(target, k) THEN PyFloat(Get(target, k)) ELSE Ok(PyNone)

\* lines 205-218
ts_capability_fields(target, entry) ==
    Then(ts_float_field(target, "event"), LAMBDA event :
    Then(ts_float_field(target, "thread_id"), LAMBDA thread_id :
    Ok(SetIf(HasKey(target, "error"),
         SetIf(HasKey(target, "server_ready"),
           SetIf(HasKey(target, "thread_id"),
             SetIf(HasKey(target, "event"), entry, "event", event),
             "thread_id", thread_id),
           "server_ready", Flag(Part(target, "server_ready"))),
         "error", Flag(Part(target, "error"))))))

\* lines 194-218: the entry of one message of the capabilities topic
ts_capability_entry(msg, message_index) ==
    Then(PyIn("target", msg.msg), LAMBDA hasTarget :
    IF ~hasTarget THEN Ok(ts_entry(msg, message_index)) ELSE
    Then(PyGetItem(msg.msg, "target"), LAMBDA target :
    IF ~IsDict(target) THEN Ok(ts_entry(msg, message_index))
    ELSE ts_capability_fields(target, ts_entry(msg, message_index))))

\* lines 190-222: converted_data of the capabilities topic
RECURSIVE ts_capability_points(_, _, _)
ts_capability_points(messages, i, converted_data) ==
    IF i > Len(messages) THEN Ok(converted_data) ELSE
    Then(ts_capability_entry(messages[i], i - 1), LAMBDA entry :
    ts_capability_points(messages, i + 1,
        IF Len(entry) > 2 THEN Append(converted_data, entry) ELSE converted_data))

\* an entry under construction, with the found_values flag
Building(entry, found_values) == [entry |-> entry, found_values |-> found_values]

\* lines 238-241: for key, value in msg["msg"].items()
RECURSIVE ts_flatten_body(_, _, _)
ts_flatten_body(kv, i, b) ==
    IF i > Len(kv) THEN b
    ELSE ts_flatten_body(kv, i + 1,
            IF IsNumber(kv[i][2])
            THEN Building(DSet(b.entry, kv[i][1], PyFloat(kv[i][2]).v), TRUE)
            ELSE b)

\* lines 245-248 and 252-255: for key, value in msg["msg"][part].items()
RECURSIVE ts_flatten_nested(_, _, _, _)
ts_flatten_nested(kv, i, prefix, b) ==
    IF i > Len(kv) THEN b
    ELSE ts_flatten_nested(kv, i + 1, prefix,
            IF IsNumber(kv[i][2]) /\ ~DHas(b.entry, kv[i][1])
            THEN Building(DSet(b.entry, prefix \o kv[i][1], PyFloat(kv[i][2]).v), TRUE)
            ELSE b)

\* lines 244 and 251: the part is flattened when it is there and is a dict
ts_flatten_part(body, part, prefix, b) ==
    IF HasKey(body, part) /\ IsDict(Get(body, part))
    THEN ts_flatten_nested(Get(body, part).kv, 1, prefix, b)
    ELSE b

\* lines 258-260
ts_default_value(b) ==
    IF b.found_values THEN b.entry ELSE DSet(b.entry, "value", PyFloatOf(2))

\* lines 231-260: the entry of one message of another topic
ts_generic_entry(msg, message_index) ==
    ts_default_value(
        IF IsDict(msg.msg)
        THEN ts_flatten_part(msg.msg, "source", "source_",
               ts_flatten_part(msg.msg, "target", "target_",
                 ts_flatten_body(msg.msg.kv, 1,
                                 Building(ts_entry(msg, message_index), FALSE))))
        ELSE Building(ts_entry(msg, message_index), FALSE))

\* lines 185-265, for the sorted messages of one topic
ts_points(topic, messages) ==
    IF topic = JStr(CapabilitiesTopic)
    THEN ts_capability_points(messages, 1, <<>>)
    ELSE Ok([i \in 1..Len(messages) |-> ts_generic_entry(messages[i], i - 1)])

\* time_series[topic] = converted_data, if converted_data
ts_store(time_series, topic, converted_data) ==
    IF Len(converted_data) > 0 THEN DSet(time_series, topic, converted_data)
    ELSE time_series

\* lines 182-265: for topic, messages in topic_messages.items()
RECURSIVE ts_convert(_, _, _)
ts_convert(topic_messages, g, time_series) ==
    IF g > Len(topic_messages) THEN Ok(time_series) ELSE
    Then(ts_points(topic_messages[g][1], ts_sort(topic_messages[g][2])),
         LAMBDA converted_data :
         ts_convert(topic_messages, g + 1,
                    ts_store(time_series, topic_messages[g][1], converted_data)))

\* lines 153-267
ts_rosbridge(data) ==
    Then(ts_group(data.items, 1, <<>>), LAMBDA topic_messages :
    ts_convert(topic_messages, 1, <<>>))

\* "a" in x and "b" in x
PyInBoth(a, b, x) ==
    Then(PyIn(a, x), LAMBDA hasA : IF hasA THEN PyIn(b, x) ELSE Ok(FALSE))

\* lines 275-284, for one message that has "topic" and "data"
tsg_collect(topic_messages, msg, topic) ==
    IF ~Hashable(topic) THEN Raise("TypeError") ELSE
    Ok(DAppend(DEnsure(topic_messages, topic), topic,
               SetIf(HasKey(msg, "timestamp"),
                     <<<<"data", Get(msg, "data")>>>>, "time", Part(msg, "timestamp"))))

\* lines 273-284: for msg in data["messages"]
RECURSIVE tsg_group(_, _, _)
tsg_group(msgs, i, topic_messages) ==
    IF i > Len(msgs) THEN Ok(topic_messages) ELSE
    Then(PyInBoth("topic", "data", msgs[i]), LAMBDA wanted :
    IF ~wanted THEN tsg_group(msgs, i + 1, topic_messages) ELSE
    Then(PyGetItem(msgs[i], "topic"), LAMBDA topic :
    Then(tsg_collect(topic_messages, msgs[i], topic), LAMBDA grouped :
    tsg_group(msgs, i + 1, grouped))))

\* msg.get("time", 0)
tsg_time(msg) == IF DHas(msg, "time") THEN ToPy(DGet(msg, "time")) ELSE PyInt(0)

\* lines 295-297: for key, value in msg["data"].items()
RECURSIVE tsg_flatten(_, _, _)
tsg_flatten(kv, i, entry) ==
    IF i > Len(kv) THEN entry
    ELSE tsg_flatten(kv, i + 1,
                     SetIf(IsNumber(kv[i][2]), entry, kv[i][1], ToPy(kv[i][2])))

\* lines 291-303: converted_data of one topic, in the order of the messages
RECURSIVE tsg_points(_, _, _)
tsg_points(messages, i, converted_data) ==
    IF i > Len(messages) THEN converted_data
    ELSE tsg_points(messages, i + 1,
            IF IsDict(DGet(messages[i], "data"))
            THEN Append(converted_data,
                        tsg_flatten(DGet(messages[i], "data").kv, 1,
                                    <<<<"time", tsg_time(messages[i])>>>>))
            ELSE IF IsNumber(DGet(messages[i], "data"))
            THEN Append(converted_data,
                        <<<<"time", tsg_time(messages[i])>>,
                          <<"value", ToPy(DGet(messages[i], "data"))>>>>)
            ELSE converted_data)

\* lines 287-306: for topic, messages in topic_messages.items()
RECURSIVE tsg_convert(_, _, _)
tsg_convert(topic_messages, g, time_series) ==
    IF g > Len(topic_messages) THEN time_series
    ELSE tsg_convert(topic_messages, g + 1,
            ts_store(time_series, topic_messages[g][1],
                     tsg_points(topic_messages[g][2], 1, <<>>)))

\* [{"time": t, "value": v} for t, v in zip(times, values)]
Zipped(times, values) ==
    [i \in 1..Min(Len(times), Len(values)) |->
        <<<<"time", ToPy(times[i])>>, <<"value", ToPy(values[i])>>>>]
\* [{"time": i, "value": v} for i, v in enumerate(values)]
Enumerated(values) ==
    [i \in 1..Len(values) |-> <<<<"time", PyInt(i - 1)>>, <<"value", ToPy(values[i])>>>>]

\* "times" in series and len(series["times"]) == len(values)
tsd_timed(series, values) ==
    IF ~HasKey(series, "times") THEN Ok(FALSE) ELSE
    Then(PyLen(Get(series, "times")), LAMBDA n :
    Then(PyLen(values), LAMBDA m : Ok(n = m)))

\* lines 312-326: the points of one series
tsd_points(series, values) ==
    Then(tsd_timed(series, values), LAMBDA timed :
    IF timed
    THEN Then(PyIter(Get(series, "times")), LAMBDA times :
         Then(PyIter(values), LAMBDA vs : Ok(Zipped(times, vs))))
    ELSE Then(PyIter(values), LAMBDA vs : Ok(Enumerated(vs))))

\* time_series[topic] = points
tsd_store(time_series, topic, points) ==
    IF ~Hashable(topic) THEN Raise("TypeError") ELSE Ok(DSet(time_series, topic, points))

\* lines 310-326: for series in data["time_series"]
RECURSIVE tsd_series(_, _, _)
tsd_series(list, i, time_series) ==
    IF i > Len(list) THEN Ok(time_series) ELSE
    Then(PyInBoth("name", "values", list[i]), LAMBDA wanted :
    IF ~wanted THEN tsd_series(list, i + 1, time_series) ELSE
    Then(PyGetItem(list[i], "name"), LAMBDA topic :
    Then(PyGetItem(list[i], "values"), LAMBDA values :
    Then(tsd_points(list[i], values), LAMBDA points :
    Then(tsd_store(time_series, topic, points), LAMBDA stored :
    tsd_series(list, i + 1, stored))))))

\* lines 269-328
ts_generic(data) ==
    Then(PyIn("messages", data), LAMBDA hasMessages :
    IF hasMessages
    THEN OverItems(data, "messages", LAMBDA msgs :
             Then(tsg_group(msgs, 1, <<>>), LAMBDA topic_messages :
             Ok(tsg_convert(topic_messages, 1, <<>>))))
    ELSE Then(PyIn("time_series", data), LAMBDA hasSeries :
         IF hasSeries
         THEN OverItems(data, "time_series", LAMBDA list : tsd_series(list, 1, <<>>))
         ELSE Ok(<<>>)))

extract_time_series(data) ==
    IF IsRosList(data) THEN ts_rosbridge(data) ELSE ts_generic(data)

(***************************************************************************)
(* extract_node_paths.  node_paths is a record of nodes, connections (both *)
(* sequences of records), capabilities (a dict from capability name to its *)
(* record) and capability_count.  A node or connection id that is None is  *)
(* NoneId; names and texts are parsed values.                              *)
(***************************************************************************)
FirstCapabilityId == 1
NameLimit == 30
RunnerCapability == "std_capabilities/CapabilityGetRunner"
NoneId == ""

\* the dicts of pass 1; capability_ids has the keys of capability_name_to_id
\* faulty variant: the id counter is a module-level one that goes on counting from
\* the capabilities of the run before
np_registry_kept ==
    [capabilities |-> <<>>, capability_name_to_id |-> <<>>,
     next_capability_id |->
        IF pc # "call" /\ result.ret.ok
        THEN FirstCapabilityId + result.ret.v.node_paths.capability_count
        ELSE FirstCapabilityId]

np_registry0 ==
    [capabilities |-> <<>>, capability_name_to_id |-> <<>>,
     next_capability_id |-> FirstCapabilityId]

CapabilityNodeId(n) == "capability_" \o ToString(n)

\* faulty variant: next_capability_id is not incremented
np_register_same_id(reg, capability_name) ==
    IF ~Hashable(capability_name) THEN Raise("TypeError")
    ELSE IF DHas(reg.capability_name_to_id, capability_name) THEN Ok(reg)
    ELSE Ok([capabilities |->
                Append(reg.capabilities,
                       <<capability_name,
                         [id |-> reg.next_capability_id,
                          name |-> capability_name,
                          node_id |-> CapabilityNodeId(reg.next_capability_id),
                          messages |-> <<>>]>>),
             capability_name_to_id |->
                Append(reg.capability_name_to_id,
                       <<capability_name, CapabilityNodeId(reg.next_capability_id)>>),
             next_capability_id |-> reg.next_capability_id])

\* lines 373-382 and 390-399
np_register(reg, capability_name) ==
    IF ~Hashable(capability_name) THEN Raise("TypeError")
    ELSE IF DHas(reg.capability_name_to_id, capability_name) THEN Ok(reg)
    ELSE Ok([capabilities |->
                Append(reg.capabilities,
                       <<capability_name,
                         [id |-> reg.next_capability_id,
                          name |-> capability_name,
                          node_id |-> CapabilityNodeId(reg.next_capability_id),
                          messages |-> <<>>]>>),
             capability_name_to_id |->
                Append(reg.capability_name_to_id,
                       <<capability_name, CapabilityNodeId(reg.next_capability_id)>>),
             next_capability_id |-> reg.next_capability_id + 1])

\* "capability" in part and part["capability"]
HasCapability(part) == HasKey(part, "capability") /\ Truthy(Get(part, "capability"))

\* lines 368-382 and 385-399, part being msg_content["source"] or ["target"], or None
np_discover(reg, part) ==
    IF IsDict(part) /\ HasCapability(part)
    THEN np_register(reg, Get(part, "capability"))
    ELSE Ok(reg)

\* the messages both passes work on
IsGraphMessage(msg_data) == IsPublish(msg_data) /\ IsDict(Get(msg_data, "msg"))

\* faulty variant: the target of a message before its source
RECURSIVE np_pass1_target_first(_, _, _)
np_pass1_target_first(items, i, reg) ==
    IF i > Len(items) THEN Ok(reg)
    ELSE IF ~IsGraphMessage(items[i]) THEN np_pass1_target_first(items, i + 1, reg)
    ELSE Then(np_discover(reg, Part(Get(items[i], "msg"), "target")), LAMBDA r1 :
         Then(np_discover(r1, Part(Get(items[i], "msg"), "source")), LAMBDA r2 :
         np_pass1_target_first(items, i + 1, r2)))

\* first pass: the source of a message before its target, messages in order
RECURSIVE np_pass1(_, _, _)
np_pass1(items, i, reg) ==
    IF i > Len(items) THEN Ok(reg)
    ELSE IF ~IsGraphMessage(items[i]) THEN np_pass1(items, i + 1, reg)
    ELSE Then(np_discover(reg, Part(Get(items[i], "msg"), "source")), LAMBDA r1 :
         Then(np_discover(r1, Part(Get(items[i], "msg"), "target")), LAMBDA r2 :
         np_pass1(items, i + 1, r2)))

\* s.split('/')[-1]
LastSegment(s) ==
    SubSeq(s, 1 + (CHOOSE i \in 0..Len(s) :
                      /\ i > 0 => SubSeq(s, i, i) = "/"
                      /\ \A j \in (i + 1)..Len(s) : SubSeq(s, j, j) # "/"), Len(s))

\* topic.split('/')[-1] if '/' in topic else "Unknown"
np_topic_name(topic) ==
    Then(PyIn("/", topic), LAMBDA has :
    IF ~has THEN Ok(JStr("Unknown"))
    ELSE IF topic.t = "str" THEN Ok(JStr(LastSegment(topic.s)))
    ELSE Raise("AttributeError"))

\* source_capability / target_capability after lines 438-439 / 454-455
np_capability(part) == IF HasCapability(part) THEN Get(part, "capability") ELSE JStr("")

\* lines 438-447, for a source whose capability variable is cap
np_source_named(names, cap, topic, msg_idx) ==
    IF Truthy(cap) /\ ~Hashable(cap) THEN Raise("TypeError")
    ELSE IF Truthy(cap) /\ DHas(names, cap)
    THEN Ok([id |-> DGet(names, cap), name |-> cap, capability |-> cap])
    ELSE Then(np_topic_name(topic), LAMBDA source_name :
         Ok([id |-> "source_" \o ToString(msg_idx), name |-> source_name,
             capability |-> cap]))

\* lines 424-447
np_source(names, source, topic, msg_idx) ==
    IF ~IsDict(source)
    THEN Ok([id |-> NoneId, name |-> JStr(""), capability |-> JStr("")])
    ELSE np_source_named(names, np_capability(source), topic, msg_idx)

\* f"{target_text[:30]}{'...' if len(target_text) > 30 else ''}" for a truthy text
np_short_text(text) ==
    CASE text.t = "str" ->
           Ok(IF Len(text.s) > NameLimit
              THEN SubSeq(text.s, 1, NameLimit) \o "..." ELSE text.s)
      [] text.t = "list" ->
           Ok(IF Len(text.items) > NameLimit
              THEN PyStr(JList(SubSeq(text.items, 1, NameLimit))) \o "..."
              ELSE PyStr(text))
      [] OTHER -> Raise("TypeError")

\* faulty variant: event_type stays at its default
np_event_default(target) == 0

\* lines 428 and 475-480
np_event(target) ==
    IF HasKey(target, "event") THEN Except(PyIntOf(Get(target, "event")), 0).v ELSE 0

\* faulty variant: a text is looked at before the capability
np_target_named_text_first(names, cap, target_text, event_type, msg_idx) ==
    IF Truthy(cap) /\ ~Hashable(cap) THEN Raise("TypeError")
    ELSE IF Truthy(target_text)
    THEN Then(np_short_text(target_text), LAMBDA target_name :
         Ok([id |-> "message_" \o ToString(msg_idx), name |-> JStr(target_name),
             capability |-> cap, text |-> target_text, event |-> event_type]))
    ELSE IF Truthy(cap) /\ DHas(names, cap)
    THEN Ok([id |-> DGet(names, cap), name |-> cap, capability |-> cap,
             text |-> target_text, event |-> event_type])
    ELSE Ok([id |-> "target_" \o ToString(msg_idx),
             name |-> JStr("Target " \o ToString(msg_idx)),
             capability |-> cap, text |-> target_text, event |-> event_type])

\* lines 454-472, for a target whose capability variable is cap
np_target_named(names, cap, target_text, event_type, msg_idx) ==
    IF Truthy(cap) /\ ~Hashable(cap) THEN Raise("TypeError")
    ELSE IF Truthy(cap) /\ DHas(names, cap)
    THEN Ok([id |-> DGet(names, cap), name |-> cap, capability |-> cap,
             text |-> target_text, event |-> event_type])
    ELSE IF Truthy(target_text)
    THEN Then(np_short_text(target_text), LAMBDA target_name :
         Ok([id |-> "message_" \o ToString(msg_idx), name |-> JStr(target_name),
             capability |-> cap, text |-> target_text, event |-> event_type]))
    ELSE Ok([id |-> "target_" \o ToString(msg_idx),
             name |-> JStr("Target " \o ToString(msg_idx)),
             capability |-> cap, text |-> target_text, event |-> event_type])

\* lines 425-480
np_target(names, target, msg_idx) ==
    IF ~IsDict(target)
    THEN Ok([id |-> NoneId, name |-> JStr(""), capability |-> JStr(""),
             text |-> JStr(""), event |-> 0])
    ELSE np_target_named(names, np_capability(target),
                         IF HasKey(target, "text") THEN Get(target, "text") ELSE JStr(""),
                         np_event(target), msg_idx)

\* lines 485-490
np_track_key(capabilities, cap_key, message) ==
    IF DHas(capabilities, cap_key)
    THEN DSet(capabilities, cap_key,
              [DGet(capabilities, cap_key) EXCEPT !.messages = Append(@, message)])
    ELSE capabilities

\* lines 483-490
np_track(capabilities, src, tgt, timestamp) ==
    IF src.capability = JStr(RunnerCapability) \/ tgt.capability = JStr(RunnerCapability)
    THEN np_track_key(capabilities,
                      IF Truthy(src.capability) THEN src.capability ELSE tgt.capability,
                      [text |-> tgt.text, timestamp |-> timestamp, event |-> tgt.event])
    ELSE capabilities

\* faulty variant: added_node_ids is never filled, so no id counts as added
Added_forgotten(nodes, id) == FALSE

\* added_node_ids: the ids of the nodes appended so far
Added(nodes, id) == \E i \in 1..Len(nodes) : nodes[i].id = id

\* lines 495-503
np_add_source(nodes, src) ==
    IF Added(nodes, src.id) THEN nodes
    ELSE Append(nodes,
                [id |-> src.id, name |-> src.name,
                 type |-> IF StartsWith(src.id, "capability_") THEN "capability" ELSE "source",
                 is_capability |-> StartsWith(src.id, "capability_")])

\* faulty variant: the target of a connection gets no node
np_add_target_skipped(nodes, tgt) == nodes

\* lines 506-515
np_add_target(nodes, tgt) ==
    IF Added(nodes, tgt.id) THEN nodes
    ELSE Append(nodes,
                [id |-> tgt.id, name |-> tgt.name,
                 type |-> IF StartsWith(tgt.id, "capability_") THEN "capability" ELSE "target",
                 is_capability |-> StartsWith(tgt.id, "capability_"),
                 text |-> IF StartsWith(tgt.id, "message_") THEN tgt.text ELSE JStr("")])

\* faulty variant: one resolved end is enough for the nodes and the connection
np_record_either(node_paths, src, tgt, timestamp, topic, msg_idx) ==
    [nodes |->
        IF src.id # NoneId \/ tgt.id # NoneId
        THEN np_add_target(np_add_source(node_paths.nodes, src), tgt)
        ELSE node_paths.nodes,
     connections |->
        IF src.id # NoneId \/ tgt.id # NoneId
        THEN Append(node_paths.connections,
                    [id |-> "conn_" \o ToString(msg_idx), source |-> src.id,
                     target |-> tgt.id, topic |-> topic, timestamp |-> timestamp,
                     event |-> tgt.event, text |-> tgt.text])
        ELSE node_paths.connections,
     capabilities |-> np_track(node_paths.capabilities, src, tgt, timestamp),
     capability_count |-> node_paths.capability_count]

\* lines 483-526, for one message whose ends are src and tgt
np_record(node_paths, src, tgt, timestamp, topic, msg_idx) ==
    [nodes |->
        IF src.id # NoneId /\ tgt.id # NoneId
        THEN np_add_target(np_add_source(node_paths.nodes, src), tgt)
        ELSE node_paths.nodes,
     connections |->
        IF src.id # NoneId /\ tgt.id # NoneId
        THEN Append(node_paths.connections,
                    [id |-> "conn_" \o ToString(msg_idx), source |-> src.id,
                     target |-> tgt.id, topic |-> topic, timestamp |-> timestamp,
                     event |-> tgt.event, text |-> tgt.text])
        ELSE node_paths.connections,
     capabilities |-> np_track(node_paths.capabilities, src, tgt, timestamp),
     capability_count |-> node_paths.capability_count]

\* second pass: nodes and connections, messages in order
RECURSIVE np_pass2(_, _, _, _)
np_pass2(items, i, names, node_paths) ==
    IF i > Len(items) THEN Ok(node_paths)
    ELSE IF ~IsGraphMessage(items[i]) THEN np_pass2(items, i + 1, names, node_paths)
    ELSE Then(header_stamp(Get(items[i], "msg")), LAMBDA st :
         Then(np_source(names, Part(Get(items[i], "msg"), "source"),
                        Get(items[i], "topic"), i - 1), LAMBDA src :
         Then(np_target(names, Part(Get(items[i], "msg"), "target"), i - 1), LAMBDA tgt :
         np_pass2(items, i + 1, names,
                  np_record(node_paths, src, tgt, TimestampOr0(st),
                            Get(items[i], "topic"), i - 1)))))

\* faulty variant: the connections stay in discovery order
np_sort_skipped(connections) == connections

\* sorted(node_paths["connections"], key=lambda x: x["timestamp"])
np_sort(connections) ==
    PySorted(connections, [i \in 1..Len(connections) |-> connections[i].timestamp.h])

\* faulty variant: the node list and with it the set of ids already added are
\* left over from the run before
np_start_kept(reg) ==
    [nodes |-> IF pc # "call" /\ result.ret.ok THEN result.ret.v.node_paths.nodes ELSE <<>>,
     connections |-> <<>>, capabilities |-> reg.capabilities,
     capability_count |-> Len(reg.capability_name_to_id)]

\* lines 341-346, with the capabilities and the count of pass 1
np_start(reg) ==
    [nodes |-> <<>>, connections |-> <<>>, capabilities |-> reg.capabilities,
     capability_count |-> Len(reg.capability_name_to_id)]

np_sorted(node_paths) == [node_paths EXCEPT !.connections = np_sort(@)]

extract_node_paths(data) ==
    IF ~IsRosList(data) THEN Ok(np_start(np_registry0)) ELSE
    Then(np_pass1(data.items, 1, np_registry0), LAMBDA reg :
    Then(np_pass2(data.items, 1, reg.capability_name_to_id, np_start(reg)),
         LAMBDA node_paths : Ok(np_sorted(node_paths))))

(***************************************************************************)
(* extract_robot_state.  state_data is a dict from str(timestamp) to       *)
(* state_info, a dict from field name to the parsed value stored.          *)
(***************************************************************************)
\* str(x) of a Python number with a short decimal form
PyNumStr(x) ==
    IF x.ty = "int" THEN ToString(x.h \div 2)
    ELSE ToString(x.h \div 2) \o (IF x.h % 2 = 0 THEN ".0" ELSE ".5")

\* if k in part: state_info[field] = part[k], for a part that may be no dict
\* faulty variant: the field is copied whether or not the part has it
rs_copy_always(state_info, field, part, k) == DSet(state_info, field, Part(part, k))
rs_copy(state_info, field, part, k) ==
    SetIf(HasIn(part, k), state_info, field, Part(part, k))

\* lines 567-593
rs_state_info(msg_content) ==
    rs_copy(
      rs_copy(
        rs_copy(
          rs_copy(
            rs_copy(<<>>, "position", Part(msg_content, "pose"), "position"),
            "orientation", Part(msg_content, "pose"), "orientation"),
          "status", Part(msg_content, "target"), "text"),
        "event", Part(msg_content, "target"), "event"),
      "capability", Part(msg_content, "source"), "capability")

\* faulty variant: a snapshot is kept once its key is there (first-write-wins)
rs_store_first(state_data, st, state_info) ==
    IF st.has /\ st.ts.h # 0 /\ Len(state_info) > 0 /\ ~DHas(state_data, PyNumStr(st.ts))
    THEN DSet(state_data, PyNumStr(st.ts), state_info)
    ELSE state_data

\* lines 563-598, for one message whose header gave st
rs_store(state_data, st, state_info) ==
    IF st.has /\ st.ts.h # 0 /\ Len(state_info) > 0
    THEN DSet(state_data, PyNumStr(st.ts), state_info)
    ELSE state_data

\* lines 548-598: for msg_data in data
RECURSIVE rs_rosbridge(_, _, _)
rs_rosbridge(items, i, state_data) ==
    IF i > Len(items) THEN Ok(state_data)
    ELSE IF ~IsGraphMessage(items[i]) THEN rs_rosbridge(items, i + 1, state_data)
    ELSE Then(header_stamp(Get(items[i], "msg")), LAMBDA st :
         rs_rosbridge(items, i + 1,
                      rs_store(state_data, st, rs_state_info(Get(items[i], "msg")))))

\* d.get("pose", {}).get(field, {})
rs_pose_default(d, field) ==
    IF ~HasKey(d, "pose") THEN Ok(JObj(<<>>))
    ELSE IF ~IsDict(Get(d, "pose")) THEN Raise("AttributeError")
    ELSE Ok(IF HasKey(Get(d, "pose"), field) THEN Get(Get(d, "pose"), field)
            ELSE JObj(<<>>))

\* lines 616-619 and 622-625: the default of .get is computed before the lookup
rs_pose_field(state_info, d, field) ==
    IF ~(HasKey(d, field) \/ HasKey(d, "pose")) THEN Ok(state_info) ELSE
    Then(rs_pose_default(d, field), LAMBDA default :
    Ok(SetIf(Truthy(IF HasKey(d, field) THEN Get(d, field) ELSE default),
             state_info, field,
             IF HasKey(d, field) THEN Get(d, field) ELSE default)))

\* lines 628-631
rs_joints(state_info, d) ==
    SetIf(HasKey(d, "joint_states") /\ Truthy(Part(d, "joint_states")),
          state_info, "joints", Part(d, "joint_states"))

\* lines 613-635, for a message whose data is the dict d
rs_message(state_data, timestamp, d) ==
    Then(rs_pose_field(<<>>, d, "position"), LAMBDA s1 :
    Then(rs_pose_field(s1, d, "orientation"), LAMBDA s2 :
    Ok(SetIf(Len(rs_joints(s2, d)) > 0, state_data, PyStr(timestamp), rs_joints(s2, d)))))

\* lines 607-635: for msg in data["messages"]
RECURSIVE rs_messages(_, _, _)
rs_messages(msgs, i, state_data) ==
    IF i > Len(msgs) THEN Ok(state_data) ELSE
    Then(PyInBoth("timestamp", "data", msgs[i]), LAMBDA wanted :
    IF ~wanted THEN rs_messages(msgs, i + 1, state_data) ELSE
    Then(PyGetItem(msgs[i], "timestamp"), LAMBDA timestamp :
    IF ~IsDict(Get(msgs[i], "data")) THEN rs_messages(msgs, i + 1, state_data) ELSE
    Then(rs_message(state_data, timestamp, Get(msgs[i], "data")), LAMBDA stored :
    rs_messages(msgs, i + 1, stored))))

\* lines 639-640: for timestamp, pose in data["poses"].items()
RECURSIVE rs_poses(_, _, _)
rs_poses(kv, i, state_data) ==
    IF i > Len(kv) THEN Ok(state_data)
    ELSE IF ~IsDict(kv[i][2]) THEN Raise("AttributeError")
    ELSE rs_poses(kv, i + 1,
            DSet(state_data, kv[i][1],
                 <<<<"position",
                     IF HasKey(kv[i][2], "position") THEN Get(kv[i][2], "position")
                     ELSE JObj(<<>>)>>,
                   <<"orientation",
                     IF HasKey(kv[i][2], "orientation") THEN Get(kv[i][2], "orientation")
                     ELSE JObj(<<>>)>>>>))

\* lines 638-640
rs_alternative(data, state_data) ==
    IF Len(state_data) > 0 \/ ~HasKey(data, "poses") THEN Ok(state_data)
    ELSE IF ~IsDict(Get(data, "poses")) THEN Raise("AttributeError")
    ELSE rs_poses(Get(data, "poses").kv, 1, state_data)

\* lines 605-642
rs_dict(data) ==
    IF ~IsDict(data) THEN Ok(<<>>)
    ELSE IF HasKey(data, "messages")
    THEN Then(PyIter(Get(data, "messages")), LAMBDA msgs :
         Then(rs_messages(msgs, 1, <<>>), LAMBDA state_data :
         rs_alternative(data, state_data)))
    ELSE rs_alternative(data, <<>>)

extract_robot_state(data) ==
    IF IsRosList(data)
    THEN Then(rs_rosbridge(data.items, 1, <<>>), LAMBDA state_data :
         IF Len(state_data) > 0 THEN Ok(state_data) ELSE rs_dict(data))
    ELSE rs_dict(data)

(***************************************************************************)
(* extract_topic_metadata.  topic_metadata is a dict from topic to a       *)
(* record of type and description.                                         *)
(***************************************************************************)
\* lines 666-674
tm_msg_type(msg_data) ==
    IF ~(HasKey(msg_data, "msg") /\ IsDict(Get(msg_data, "msg"))) THEN "unknown"
    ELSE IF HasKey(Get(msg_data, "msg"), "pose") THEN "geometry_msgs/Pose"
    ELSE IF HasKey(Get(msg_data, "msg"), "source") /\ HasKey(Get(msg_data, "msg"), "target")
    THEN "capabilities_msgs/Event"
    ELSE IF HasKey(Get(msg_data, "msg"), "header") THEN "std_msgs/Header"
    ELSE "unknown"

\* if topic not in topic_metadata: topic_metadata[topic] = info
tm_first(topic_metadata, topic, info) ==
    IF ~Hashable(topic) THEN Raise("TypeError")
    ELSE Ok(SetIf(~DHas(topic_metadata, topic), topic_metadata, topic, info))

\* lines 661-679: for msg_data in data
RECURSIVE tm_rosbridge(_, _, _)
tm_rosbridge(items, i, topic_metadata) ==
    IF i > Len(items) THEN Ok(topic_metadata)
    ELSE IF ~(HasKey(items[i], "topic") /\ HasKey(items[i], "op"))
    THEN tm_rosbridge(items, i + 1, topic_metadata)
    ELSE Then(tm_first(topic_metadata, Get(items[i], "topic"),
                       [type |-> JStr(tm_msg_type(items[i])),
                        description |-> JStr("Inferred from ROS Bridge messages")]),
              LAMBDA stored : tm_rosbridge(items, i + 1, stored))

\* topic_metadata[topic_name] = info
tm_set(topic_metadata, topic_name, info) ==
    IF ~Hashable(topic_name) THEN Raise("TypeError")
    ELSE Ok(DSet(topic_metadata, topic_name, info))

\* lines 688-694: for topic_info in data["topics"]
RECURSIVE tm_topics(_, _, _)
tm_topics(infos, i, topic_metadata) ==
    IF i > Len(infos) THEN Ok(topic_metadata) ELSE
    Then(PyIn("name", infos[i]), LAMBDA named :
    IF ~named THEN tm_topics(infos, i + 1, topic_metadata) ELSE
    Then(PyGetItem(infos[i], "name"), LAMBDA topic_name :
    Then(tm_set(topic_metadata, topic_name,
                [type |-> IF HasKey(infos[i], "type") THEN Get(infos[i], "type")
                          ELSE JStr("unknown"),
                 description |-> IF HasKey(infos[i], "description")
                                 THEN Get(infos[i], "description") ELSE JStr("")]),
         LAMBDA stored : tm_topics(infos, i + 1, stored))))

\* lines 698-703: for msg in data["messages"]
RECURSIVE tm_messages(_, _, _)
tm_messages(msgs, i, topic_metadata) ==
    IF i > Len(msgs) THEN Ok(topic_metadata) ELSE
    Then(PyIn("topic", msgs[i]), LAMBDA has :
    IF ~has THEN tm_messages(msgs, i + 1, topic_metadata) ELSE
    Then(PyGetItem(msgs[i], "topic"), LAMBDA topic :
    Then(tm_first(topic_metadata, topic,
                  [type |-> JStr("inferred"), description |-> JStr("")]),
         LAMBDA stored : tm_messages(msgs, i + 1, stored))))

\* lines 686-705
tm_dict(data) ==
    IF ~IsDict(data) THEN Ok(<<>>)
    ELSE IF HasKey(data, "topics")
    THEN Then(PyIter(Get(data, "topics")), LAMBDA infos : tm_topics(infos, 1, <<>>))
    ELSE IF HasKey(data, "messages")
    THEN Then(PyIter(Get(data, "messages")), LAMBDA msgs : tm_messages(msgs, 1, <<>>))
    ELSE Ok(<<>>)

extract_topic_metadata(data) ==
    IF IsRosList(data)
    THEN Then(tm_rosbridge(data.items, 1, <<>>), LAMBDA topic_metadata :
         IF Len(topic_metadata) > 0 THEN Ok(topic_metadata) ELSE tm_dict(data))
    ELSE tm_dict(data)

(***************************************************************************)
(* process_robot_data: json.loads, then the five extractors in order; an   *)
(* exception of any of them leaves the function.                           *)
(***************************************************************************)
process_robot_data(c) ==
    Then(json_loads(c), LAMBDA data :
    Then(extract_time_range(data), LAMBDA time_range :
    Then(extract_time_series(data), LAMBDA time_series :
    Then(extract_robot_state(data), LAMBDA robot_state :
    Then(extract_node_paths(data), LAMBDA node_paths :
    Then(extract_topic_metadata(data), LAMBDA topic_metadata :
    Ok([messages |-> IF IsList(data) THEN data.items ELSE <<>>,
        time_range |-> time_range,
        time_series |-> time_series,
        robot_state |-> robot_state,
        node_paths |-> node_paths,
        topic_metadata |-> topic_metadata])))))))

(***************************************************************************)
(* get_available_topics (src/utils/foxglove_integration.py, the one app.py *)
(* imports): sorted(list(set(keys of topic_metadata + keys of              *)
(* time_series))).  Strings sort by code point (Ascii lists the characters *)
(* of the modelled topic names in that order); sorting unlike keys raises. *)
(***************************************************************************)
Ascii ==
    " #$%&()*+,-./0123456789:;<=>?@ABCDEFGHIJKLMNOPQRSTUVWXYZ[]^_abcdefghijklmnopqrstuvwxyz{|}~"
CharRank(c) == CHOOSE i \in 1..Len(Ascii) : SubSeq(Ascii, i, i) = c
RECURSIVE StrLessFrom(_, _, _)
StrLessFrom(a, b, i) ==
    IF i > Len(b) THEN FALSE
    ELSE IF i > Len(a) THEN TRUE
    ELSE LET x == CharRank(SubSeq(a, i, i))
             y == CharRank(SubSeq(b, i, i))
         IN IF x # y THEN x < y ELSE StrLessFrom(a, b, i + 1)
StrLess(a, b) == StrLessFrom(a, b, 1)

\* the keys of topic_metadata and of time_series, as a set
TopicKeys(data) ==
    {data.topic_metadata[i][1] : i \in 1..Len(data.topic_metadata)}
    \cup {data.time_series[i][1] : i \in 1..Len(data.time_series)}

\* sorted(list(keys)) for keys that are all strings or all integers
SortedKeys(keys) ==
    IF \A k \in keys : k.t = "str"
    THEN Ok([p \in 1..Cardinality(keys) |->
               CHOOSE k \in keys : Cardinality({j \in keys : StrLess(j.s, k.s)}) = p - 1])
    ELSE IF \A k \in keys : k.t = "num"
    THEN Ok([p \in 1..Cardinality(keys) |->
               CHOOSE k \in keys : Cardinality({j \in keys : j.n < k.n}) = p - 1])
    ELSE IF Cardinality(keys) = 1 THEN Ok([p \in 1..1 |-> CHOOSE k \in keys : TRUE])
    ELSE Raise("TypeError")

get_available_topics(data) == SortedKeys(TopicKeys(data))

(***************************************************************************)
(* The session and one run of the upload handling (src/app.py, 26-69).     *)
(***************************************************************************)
NoFile == [file |-> FALSE]
DefaultSelected == 3

session0 ==
    [data |-> PyNone, topics |-> <<>>, selected_topics |-> <<>>,
     playback_speed |-> PyFloatOf(2), current_time |-> PyInt(0),
     is_playing |-> FALSE, temp_file_path |-> PyNone]

\* uploaded_file is not None: content = uploaded_file.read()
Upload(c) ==
    /\ pc = "idle"
    /\ pc' = "read"
    /\ content' = c
    /\ UNCHANGED <<vret, result, session, notice>>

\* if validate_json_data(content):
Validate ==
    /\ pc = "read"
    /\ vret' = validate_json_data(content)
    /\ pc' = "validated"
    /\ UNCHANGED <<content, result, session, notice>>

\* else: st.sidebar.error("Invalid robot data format ...")  (a raise lands in except)
Reject ==
    /\ pc = "validated"
    /\ ~(vret.ok /\ vret.v)
    /\ notice' = IF vret.ok THEN "invalid" ELSE "error"
    /\ pc' = "done"
    /\ UNCHANGED <<content, vret, result, session>>

\* faulty variant: the branch is taken whatever validate_json_data returned
SaveTemp_unvalidated ==
    /\ pc = "validated"
    /\ session' = [session EXCEPT !.temp_file_path = [holds |-> content]]
    /\ pc' = "saved"
    /\ UNCHANGED <<content, vret, result, notice>>

\* with tempfile.NamedTemporaryFile(...): tmp_file.write(content)
SaveTemp ==
    /\ pc = "validated"
    /\ vret.ok /\ vret.v
    /\ session' = [session EXCEPT !.temp_file_path = [holds |-> content]]
    /\ pc' = "saved"
    /\ UNCHANGED <<content, vret, result, notice>>

\* lines 62-63
Selected(selected_topics, topics) ==
    IF Len(selected_topics) = 0 /\ Len(topics) > 0
    THEN SubSeq(topics, 1, Min(DefaultSelected, Len(topics)))
    ELSE selected_topics

\* get_available_topics(st.session_state.data), reached when r returned
Topics(r) == IF r.ok THEN get_available_topics(r.v) ELSE r

\* the session after lines 56-63, r and t being what process_robot_data and
\* get_available_topics did: an assignment made before a raise stays
Loaded(s, r, t) ==
    IF ~r.ok THEN s
    ELSE IF ~t.ok THEN [s EXCEPT !.data = r.v]
    ELSE [s EXCEPT !.data = r.v, !.topics = t.v,
                   !.selected_topics = Selected(@, t.v)]

\* lines 56-65, and the except of line 68 when a call raises
Process ==
    /\ pc = "saved"
    /\ result' = process_robot_data(content)
    /\ session' = Loaded(session, result', Topics(result'))
    /\ notice' = IF result'.ok /\ Topics(result').ok THEN "success" ELSE "error"
    /\ pc' = "done"
    /\ UNCHANGED <<content, vret>>

(***************************************************************************)
(* The documents of the model.                                             *)
(***************************************************************************)
Pair(k, v) == << <<k, v>> >>
Stamp(secs, nsecs) == JObj(Pair("secs", secs) \o Pair("nsecs", nsecs))
Header(secs, nsecs) == Pair("header", JObj(Pair("stamp", Stamp(secs, nsecs))))
Source(kv) == Pair("source", JObj(kv))
Target(kv) == Pair("target", JObj(kv))
Capability(name) == Pair("capability", JStr(name))
Message(op, topic, body) ==
    JObj(Pair("op", JStr(op)) \o Pair("topic", JStr(topic)) \o Pair("msg", JObj(body)))
Publish(topic, body) == Message("publish", topic, body)
HalfSecond == NanosPerSec \div 2
LongText == "planning the route to the charging dock"

\* messages that exercise the timestamps and the time series
PoolTS ==
    << Publish("/a", Header(JNum(5), JNum(0))),
       Publish("/a", Header(JNum(2), JNum(0)) \o Pair("time", JNum(9))),
       Publish("/a", Pair("index", JNum(7)) \o Pair("x", JNum(3))),
       Publish("/b", Header(JNum(2), JNum(HalfSecond))
                     \o Target(Pair("event", JNum(1)) \o Pair("x", JNum(4)))
                     \o Source(Pair("x", JNum(6)))),
       Publish(CapabilitiesTopic,
               Header(JNum(5), JNum(0))
               \o Target(Pair("event", JNum(2)) \o Pair("server_ready", JBool(TRUE)))),
       Message("subscribe", "/a", Header(JNum(7), JNum(0))),
       Publish("/a", Header(JStr("abc"), JNum(0))),
       Publish(CapabilitiesTopic, Target(Pair("thread_id", JNum(3)))) >>

\* messages that exercise the capability graph
PoolNP ==
    << Publish(CapabilitiesTopic,
               Header(JNum(10), JNum(0)) \o Source(Capability("cap/A"))
               \o Target(Capability("cap/B") \o Pair("event", JNum(1)))),
       Publish("/a", Header(JNum(2), JNum(0)) \o Source(Capability("cap/B"))
                     \o Target(Capability("cap/A") \o Pair("event", JStr("abc")))),
       Publish("/a", Target(Capability("cap/B") \o Pair("event", JNum(2)))),
       Publish("/a", Source(Capability("cap/A")) \o Target(Pair("text", JStr("hello")))),
       Publish("/x/y", Source(<<>>) \o Target(<<>>)),
       Publish("/a", Header(JNum(2), JNum(HalfSecond)) \o Source(Capability("cap/A"))
                     \o Target(Capability("cap/A") \o Pair("event", JNum(3)))),
       Publish(CapabilitiesTopic,
               Header(JNum(5), JNum(0)) \o Source(Capability(RunnerCapability))
               \o Target(Pair("text", JStr(LongText)) \o Pair("event", JStr("2")))),
       Message("subscribe", "/a",
               Source(Capability("cap/C")) \o Target(Capability("cap/A"))) >>

\* every list of 1..MaxMsgs messages of a pool
ListsOf(pool) ==
    UNION {{JList(q) : q \in [1..n -> {pool[i] : i \in 1..Len(pool)}]} : n \in 1..MaxMsgs}
RosDocs == ListsOf(PoolTS) \cup ListsOf(PoolNP)

\* shapes that decide validation
Filler == JObj(Pair("seq", JNum(1)))
Bare == JObj(Pair("op", JStr("publish")) \o Pair("topic", JStr("/a")) \o Pair("msg", JNull))
Fillers(n) == [i \in 1..n |-> Filler]
ShapeDocs ==
    { JList(<<>>), JNum(5), JNull, JBool(TRUE), JStr("pose"), JStr("hello"),
      JStr("messages"),
      JList(<<JNum(1)>>), JList(<<JStr("twist")>>), JList(<<JStr("messages")>>),
      JList(<<Filler>>), JList(<<Bare>>), JList(<<Filler, Bare>>),
      JList(<<Bare, JNum(1)>>),
      JList(<<JObj(Pair("op", JStr("publish")) \o Pair("topic", JStr("/a")))>>),
      JList(<<JObj(Pair("pose", JNum(1)))>>),
      JList(Fillers(SniffLimit - 1) \o <<Bare>>),
      JList(Fillers(SniffLimit) \o <<Bare>>),
      JList(Fillers(SniffLimit) \o <<Bare, JObj(Pair("note", JStr("orientation")))>>),
      JObj(<<>>), JObj(Pair("foo", JNum(1))), JObj(Pair("foo", JStr("orientation"))),
      JObj(Pair("composed", JNum(1))), JObj(Pair("joint_states", JList(<<>>))) }

\* mappings in the standard message format and its alternatives
GMsg(topic, timestamp, data) ==
    JObj(Pair("topic", JStr(topic)) \o Pair("timestamp", JNum(timestamp)) \o Pair("data", data))
Series(name, values, times) ==
    JObj(Pair("name", JStr(name)) \o Pair("values", JList(values))
         \o Pair("times", JList(times)))
DictDocs ==
    { JObj(Pair("metadata", JObj(<<>>))),
      JObj(Pair("topics", JList(<<>>))),
      JObj(Pair("messages", JList(<<>>))),
      JObj(Pair("metadata", JNum(1)) \o Pair("messages", JNum(5))),
      JObj(Pair("topics", JList(<< JObj(Pair("name", JStr("/a")) \o Pair("type", JStr("T1"))),
                                   JObj(Pair("name", JStr("/a")) \o Pair("type", JStr("T2"))) >>))),
      JObj(Pair("messages",
                JList(<< GMsg("/a", 5, JObj(Pair("x", JNum(1)))),
                         GMsg("/a", 2, JObj(Pair("x", JNum(2)))),
                         GMsg("/b", 3, JNum(4)) >>))),
      JObj(Pair("messages",
                JList(<< GMsg("/a", 4, JObj(Pair("pose", JObj(Pair("position", JObj(Pair("x", JNum(1)))))))),
                         GMsg("/a", 4, JObj(Pair("joint_states", JObj(Pair("j1", JNum(2)))))) >>))),
      JObj(Pair("time_series",
                JList(<< Series("s", <<JNum(1), JNum(2)>>, <<JNum(3), JNum(4)>>) >>))),
      JObj(Pair("time_series",
                JList(<< Series("s", <<JNum(1), JNum(2)>>, <<JNum(3)>>) >>))),
      JObj(Pair("poses", JObj(<<>>))),
      JObj(Pair("poses", JObj(Pair("1", JObj(Pair("position", JObj(Pair("x", JNum(1))))))))) }

\* one publish message from capability a to capability b with event e at s seconds
Scenario(topic, a, b, e, s) ==
    JList(<<Publish(topic, Header(JNum(s), JNum(0)) \o Source(Capability(a))
                           \o Target(Capability(b) \o Pair("event", JNum(e))))>>)
ScenarioTopics == {CapabilitiesTopic, "/a"}
ScenarioNames == {"cap/A", "cap/B", RunnerCapability}
ScenarioEvents == {0, 1, 2}
ScenarioSecs == {0, 3, 10}
ScenarioDocs ==
    {Scenario(topic, a, b, e, s) :
        topic \in ScenarioTopics, a \in ScenarioNames, b \in ScenarioNames,
        e \in ScenarioEvents, s \in ScenarioSecs}

\* one publish message from cap/A to cap/B whose event is a string
EventWords == {"abc", "2"}
EventDocs ==
    {JList(<<Publish(topic, Source(Capability("cap/A"))
                            \o Target(Capability("cap/B") \o Pair("event", JStr(w))))>>) :
        topic \in ScenarioTopics, w \in EventWords}

\* messages with a source object only, next to complete ones and one with a target only
SourceOnly == Publish("/a", Header(JNum(1), JNum(0)) \o Source(Capability("cap/A")))
PartDocs ==
    {JList(<<SourceOnly>>),
     JList(<<SourceOnly, PoolNP[1], PoolNP[3]>>),
     JList(<<PoolNP[3], SourceOnly, PoolNP[6]>>)}

\* one message from cap/A to a target with the given fields
Text30 == "abcdefghijklmnopqrstuvwxyz0123"
Texts == {JStr(""), JNull, JStr("hi"), JStr(Text30), JStr(Text30 \o "4"), JStr(LongText)}
ToTarget(kv) == JList(<<Publish("/x/y", Pair("seq", JNum(1))),
                       Publish("/a", Source(Capability("cap/A")) \o Target(kv))>>)
TextDocs ==
    {ToTarget(Pair("text", x)) : x \in Texts}
    \cup {ToTarget(Capability("cap/B") \o Pair("text", x)) : x \in Texts}
    \cup {ToTarget(Capability("") \o Pair("text", x)) : x \in Texts}

\* messages for the robot state: three stamped 5 seconds with different fields, one
\* stamped 5 seconds with no field, one stamped 0, one stamped 7 seconds
PoolRS ==
    << Publish("/a", Header(JNum(5), JNum(0))
                     \o Target(Pair("text", JStr("go")) \o Pair("event", JNum(1)))),
       Publish("/b", Header(JNum(5), JNum(0)) \o Source(Capability("cap/A"))),
       Publish("/a", Header(JNum(5), JNum(0)) \o Pair("x", JNum(1))),
       Publish("/a", Header(JNum(0), JNum(0)) \o Source(Capability("cap/B"))),
       Publish("/a", Header(JNum(7), JNum(0))
                     \o Pair("pose", JObj(Pair("position", JObj(Pair("x", JNum(1))))))) >>
StateDocs ==
    {JList(<<PoolRS[i]>>) : i \in 1..Len(PoolRS)}
    \cup {JList(<<PoolRS[i], PoolRS[j]>>) : i \in 1..Len(PoolRS), j \in 1..Len(PoolRS)}
    \cup {JList(<<PoolRS[1], PoolRS[5], PoolRS[2]>>), JList(<<PoolRS[3], PoolRS[4], PoolRS[5]>>)}
    \cup {JObj(Pair("messages",
                    JList(<< GMsg("/a", 4, JObj(Pair("position", JObj(Pair("x", JNum(1)))))),
                             GMsg("/a", 4, JObj(Pair("joint_states", JObj(Pair("j1", JNum(2)))))),
                             GMsg("/a", 4, JObj(Pair("x", JNum(3)))) >>)))}

\* one message each: a target field named as a body field, as the time and as the
\* index of the point, and a source field named as a body field
FlattenDocs ==
    {JList(<<Publish("/a", body)>>) :
        body \in {Pair("x", JNum(3)) \o Target(Pair("x", JNum(4)) \o Pair("y", JNum(5))),
                  Target(Pair("time", JNum(1))),
                  Header(JNum(2), JNum(0)) \o Target(Pair("index", JNum(4))),
                  Pair("y", JBool(TRUE)) \o Source(Pair("y", JNum(6)))}}

ParsedDocs ==
    ShapeDocs \cup DictDocs \cup RosDocs \cup ScenarioDocs \cup EventDocs \cup PartDocs
    \cup TextDocs \cup StateDocs \cup FlattenDocs
Docs == {Garbage} \cup {Bytes(d) : d \in ParsedDocs}

\* the files uploaded to the application: lists of plain, capability and
\* ill-stamped messages, the shapes that decide validation, and mappings
UploadPool == <<PoolTS[1], PoolTS[4], PoolTS[5], PoolTS[7], PoolNP[1]>>
Uploads ==
    {Garbage}
    \cup {Bytes(d) : d \in ShapeDocs \cup DictDocs \cup ListsOf(UploadPool)
                              \cup EventDocs \cup PartDocs}

(***************************************************************************)
(* Calls of the functions of data_processor.py on the modelled documents,  *)
(* one action per function: result holds the function called and what it   *)
(* returned or raised.                                                     *)
(***************************************************************************)
Returned(fn, ret) == [fn |-> fn, ret |-> ret]

Call_validate_json_data ==
    /\ pc = "call"
    /\ result' = Returned("validate_json_data", validate_json_data(content))
    /\ pc' = "returned"
    /\ UNCHANGED <<content, vret, session, notice>>

Call_process_robot_data ==
    /\ pc = "call"
    /\ result' = Returned("process_robot_data", process_robot_data(content))
    /\ pc' = "returned"
    /\ UNCHANGED <<content, vret, session, notice>>

Call_extract_time_range ==
    /\ pc = "call" /\ content.parses
    /\ result' = Returned("extract_time_range", extract_time_range(content.data))
    /\ pc' = "returned"
    /\ UNCHANGED <<content, vret, session, notice>>

Call_extract_time_series ==
    /\ pc = "call" /\ content.parses
    /\ result' = Returned("extract_time_series", extract_time_series(content.data))
    /\ pc' = "returned"
    /\ UNCHANGED <<content, vret, session, notice>>

Call_extract_robot_state ==
    /\ pc = "call" /\ content.parses
    /\ result' = Returned("extract_robot_state", extract_robot_state(content.data))
    /\ pc' = "returned"
    /\ UNCHANGED <<content, vret, session, notice>>

Call_extract_node_paths ==
    /\ pc = "call" /\ content.parses
    /\ result' = Returned("extract_node_paths", extract_node_paths(content.data))
    /\ pc' = "returned"
    /\ UNCHANGED <<content, vret, session, notice>>

Call_extract_topic_metadata ==
    /\ pc = "call" /\ content.parses
    /\ result' = Returned("extract_topic_metadata", extract_topic_metadata(content.data))
    /\ pc' = "returned"
    /\ UNCHANGED <<content, vret, session, notice>>

(***************************************************************************)
(* create_node_path_visualization: the graph and the shortest path between *)
(* the two selected nodes.  A graph is a networkx DiGraph: its nodes in    *)
(* insertion order and its edges as a dict from <<source, target>> to the  *)
(* attributes of the edge.                                                 *)
(***************************************************************************)
nx_DiGraph == [nodes |-> <<>>, edges |-> <<>>]

nx_has_node(G, n) == \E i \in 1..Len(G.nodes) : G.nodes[i] = n

nx_add_node(G, n) == IF nx_has_node(G, n) THEN G ELSE [G EXCEPT !.nodes = Append(@, n)]

\* G.add_edge(u, v, **attr): both ends become nodes, a second edge between the
\* same ordered pair replaces the attributes of the first
nx_add_edge(G, u, v, attr) ==
    [nodes |-> nx_add_node(nx_add_node(G, u), v).nodes,
     edges |-> DSet(G.edges, <<u, v>>, attr)]

nx_nodes(G) == {G.nodes[i] : i \in 1..Len(G.nodes)}

nx_successors(G, among) ==
    {G.edges[i][1][2] : i \in {j \in 1..Len(G.edges) : G.edges[j][1][1] \in among}}

\* the nodes reached from the nodes of seen in at most k more steps
RECURSIVE nx_within(_, _, _)
nx_within(G, seen, k) ==
    IF k = 0 THEN seen ELSE nx_within(G, seen \cup nx_successors(G, seen), k - 1)

\* the number of edges of a shortest path from source to target, which is reachable
nx_distance(G, source, target) ==
    CHOOSE d \in 0..Len(G.nodes) :
        /\ target \in nx_within(G, {source}, d)
        /\ \A k \in 0..(d - 1) : target \notin nx_within(G, {source}, k)

nx_is_path(G, p) ==
    \A i \in 1..(Len(p) - 1) : DHas(G.edges, <<p[i], p[i + 1]>>)

\* nx.shortest_path(G, source=..., target=...), unweighted: the outcomes the library
\* can produce; which of several shortest paths it returns is the library's choice
nx_shortest_path(G, source, target) ==
    IF ~nx_has_node(G, source) \/ ~nx_has_node(G, target) THEN {Raise("NodeNotFound")}
    ELSE IF target \notin nx_within(G, {source}, Len(G.nodes)) THEN {Raise("NetworkXNoPath")}
    ELSE {Ok(p) : p \in {q \in [1..(nx_distance(G, source, target) + 1) -> nx_nodes(G)] :
                            /\ q[1] = source
                            /\ q[Len(q)] = target
                            /\ nx_is_path(G, q)}}

\* visualization_utils.py lines 250-275: the graph after one node of node_paths
vu_add_node(G, node) ==
    IF node.is_capability /\ Truthy(node.name)
    THEN IF node.name.t \in {"num", "bool"} THEN Raise("TypeError")
         ELSE Ok(nx_add_node(G, node.name))
    ELSE IF StartsWith(node.id, "message_") THEN Ok(nx_add_node(G, node.name))
    ELSE Ok(G)

RECURSIVE vu_add_nodes(_, _, _)
vu_add_nodes(nodes, i, G) ==
    IF i > Len(nodes) THEN Ok(G)
    ELSE Then(vu_add_node(G, nodes[i]), LAMBDA H : vu_add_nodes(nodes, i + 1, H))

\* capability_nodes and message_nodes: the ids a connection end can be looked up by
vu_known(nodes, id) ==
    \E i \in 1..Len(nodes) :
        /\ nodes[i].id = id
        /\ \/ nodes[i].is_capability /\ Truthy(nodes[i].name)
           \/ StartsWith(id, "message_")

vu_name(nodes, id) == nodes[CHOOSE i \in 1..Len(nodes) : nodes[i].id = id].name

\* event_names.get(event_type, "Unknown")
vu_event_name(event_type) ==
    CASE event_type = 0 -> "Info"
      [] event_type = 1 -> "Start"
      [] event_type = 2 -> "End"
      [] event_type = 3 -> "Error"
      [] event_type = 4 -> "Success"
      [] OTHER -> "Unknown"

\* lines 280-331: the graph after one connection
vu_add_edge(G, nodes, conn) ==
    IF ~vu_known(nodes, conn.source) \/ ~vu_known(nodes, conn.target) THEN Ok(G)
    ELSE IF Truthy(conn.topic) /\ conn.topic.t # "str" THEN Raise("AttributeError")
    ELSE Ok(nx_add_edge(G, vu_name(nodes, conn.source), vu_name(nodes, conn.target),
                        [label |-> vu_event_name(conn.event), time |-> conn.timestamp]))

RECURSIVE vu_add_edges(_, _, _, _)
vu_add_edges(nodes, connections, i, G) ==
    IF i > Len(connections) THEN Ok(G)
    ELSE Then(vu_add_edge(G, nodes, connections[i]), LAMBDA H :
              vu_add_edges(nodes, connections, i + 1, H))

\* lines 241-331
vu_graph(node_paths) ==
    Then(vu_add_nodes(node_paths.nodes, 1, nx_DiGraph), LAMBDA G :
         vu_add_edges(node_paths.nodes, node_paths.connections, 1, G))

\* a rendering of the highlighter: the path computed and the notice shown for it
Shown(shortest_path, st_call, text) ==
    [shortest_path |-> shortest_path, notice |-> st_call, text |-> text]

\* the except clauses of lines 370-373
vu_except(r) ==
    IF r.ok THEN Shown(r.v, "success", "Found path")
    ELSE IF r.exc = "NetworkXNoPath" THEN Shown(<<>>, "warning", "No path exists")
    ELSE Shown(<<>>, "error", "Error finding path")

\* lines 365-373: shortest_path and the notice, for the two selected nodes
vu_shortest_path(G, start_node, end_node) ==
    IF Truthy(start_node) /\ Truthy(end_node) /\ start_node # end_node
    THEN {vu_except(r) : r \in nx_shortest_path(G, start_node, end_node)}
    ELSE {Shown(<<>>, "none", "")}

\* node_visualization.py lines 25-26: entry.get(key, {}).get("capability")
nv_capability(entry, key) ==
    IF ~IsDict(entry) THEN Raise("AttributeError")
    ELSE IF ~HasKey(entry, key) THEN Ok(PyNone)
    ELSE IF ~IsDict(Get(entry, key)) THEN Raise("AttributeError")
    ELSE Ok(Part(Get(entry, key), "capability"))

\* lines 29-32
nv_add_entry(G, source, target, label) ==
    IF ~(Truthy(source) /\ Truthy(target)) THEN Ok(G)
    ELSE IF ~Hashable(source) \/ ~Hashable(target) THEN Raise("TypeError")
    ELSE Ok(nx_add_edge(G, source, target, [label |-> label]))

\* lines 24-32
RECURSIVE nv_add_entries(_, _, _)
nv_add_entries(events, i, G) ==
    IF i > Len(events) THEN Ok(G)
    ELSE Then(nv_capability(events[i], "source"), LAMBDA source :
         Then(nv_capability(events[i], "target"), LAMBDA target :
         Then(nv_add_entry(G, source, target,
                           IF HasKey(events[i], "text") THEN Get(events[i], "text")
                           ELSE JStr("")), LAMBDA H :
         nv_add_entries(events, i + 1, H))))

\* lines 21-32
nv_graph(data) ==
    IF ~IsDict(data) THEN Raise("AttributeError")
    ELSE IF ~HasKey(data, "events") THEN Ok(nx_DiGraph)
    ELSE Then(PyIter(Get(data, "events")), LAMBDA events : nv_add_entries(events, 1, nx_DiGraph))

\* lines 59-63: every exception of the library gives the same message
nv_except(r) ==
    IF r.ok THEN Shown(r.v, "none", "") ELSE Shown(<<>>, "error", "No path exists")

\* lines 59-63: shortest_path and the notice, for the two selected nodes
nv_shortest_path(G, start_node, end_node) ==
    {nv_except(r) : r \in nx_shortest_path(G, start_node, end_node)}

\* line 102: nx.descendants(G, start_node) raises for a node that is not in G
nv_descendants(G, start_node, shown) ==
    IF nx_has_node(G, start_node) THEN Ok(shown) ELSE Raise("NetworkXError")

\* lines 34-113, on the graph G
nv_render(G, show_all_paths, start_node, end_node) ==
    IF Len(G.nodes) = 0 THEN {Ok(Shown(<<>>, "warning", "No valid node path data"))}
    ELSE IF show_all_paths THEN {Ok(Shown(<<>>, "none", "All Directed Paths"))}
    ELSE {nv_descendants(G, start_node, shown) :
              shown \in nv_shortest_path(G, start_node, end_node)}

\* what a rendering leaves: the graph and what the highlighter showed
Rendered(G, shown) == [G |-> G, shown |-> shown]

\* visualization_utils.py lines 230-373 (foxglove_integration.py lines 328-453 are
\* the same code), for the processed data and the two selected nodes
vu_render(data, start_node, end_node) ==
    IF ~vu_graph(data.node_paths).ok THEN {vu_graph(data.node_paths)}
    ELSE {Ok(Rendered(vu_graph(data.node_paths).v, shown)) :
              shown \in vu_shortest_path(vu_graph(data.node_paths).v, start_node, end_node)}

\* node_visualization.py lines 21-113, for a document with events
nv_rendered(G, show_all_paths, start_node, end_node) ==
    {IF r.ok THEN Ok(Rendered(G, r.v)) ELSE r :
         r \in nv_render(G, show_all_paths, start_node, end_node)}

\* messages and events that make the edges of a graph
PathNames == {JStr("cap/A"), JStr("cap/B"), JStr("cap/C"), JStr("hello")}
Edge(a, b) == Publish("/a", Source(Capability(a)) \o Target(Capability(b)))
PoolPath ==
    << Edge("cap/A", "cap/B"), Edge("cap/B", "cap/C"), Edge("cap/C", "cap/A"),
       Edge("cap/B", "cap/A"), Edge("cap/A", "cap/A"),
       Publish("/a", Source(Capability("cap/C")) \o Target(Pair("text", JStr("hello")))) >>
EventsOf(doc) ==
    JObj(Pair("events", JList([i \in 1..Len(doc.items) |-> Get(doc.items[i], "msg")])))
PathDocs == ListsOf(PoolPath) \cup {EventsOf(d) : d \in ListsOf(PoolPath)}

\* visualization_utils.create_node_path_visualization on the processed document
vu_create_node_path_visualization(start_node, end_node) ==
    /\ pc = "call"
    /\ process_robot_data(content).ok
    /\ \E r \in vu_render(process_robot_data(content).v, start_node, end_node) :
           result' = Returned("vu_create_node_path_visualization", r)
    /\ session' = [start_node |-> start_node, end_node |-> end_node]
    /\ pc' = "returned"
    /\ UNCHANGED <<content, vret, notice>>

\* node_visualization.create_node_path_visualization on the document
nv_create_node_path_visualization(show_all_paths, start_node, end_node) ==
    /\ pc = "call"
    /\ nv_graph(content.data).ok
    /\ \E r \in nv_rendered(nv_graph(content.data).v, show_all_paths, start_node, end_node) :
           result' = Returned("nv_create_node_path_visualization", r)
    /\ session' = [start_node |-> start_node, end_node |-> end_node,
                   show_all_paths |-> show_all_paths]
    /\ pc' = "returned"
    /\ UNCHANGED <<content, vret, notice>>


\* documents for runs of process_robot_data one after the other
RunPool ==
    << Publish(CapabilitiesTopic, Header(JNum(3), JNum(0)) \o Source(Capability("cap/A"))
                   \o Target(Capability("cap/B") \o Pair("event", JNum(1)))),
       Publish("/a", Header(JNum(0), JNum(0)) \o Source(Capability("cap/B"))
                   \o Target(Capability(RunnerCapability) \o Pair("event", JNum(2))
                             \o Pair("text", JStr("go")))),
       Publish("/a", Pair("x", JNum(4)) \o Source(Capability("cap/C"))
                   \o Target(Pair("text", JStr("hello")))) >>
RunMessages == {RunPool[i] : i \in 1..Len(RunPool)}
RunDocs ==
    {JList(<<a>>) : a \in RunMessages}
    \cup {JList(<<a, b>>) : a \in RunMessages, b \in RunMessages}
    \cup {JObj(Pair("messages", JList(<<>>)))}
MaxRuns == 3

\* the first call of process_robot_data in a process
process_robot_data_alone ==
    /\ pc = "call"
    /\ result' = Returned("process_robot_data", process_robot_data(content))
    /\ session' = [alone |-> content, output |-> process_robot_data(content), runs |-> 1]
    /\ pc' = "returned"
    /\ UNCHANGED <<content, vret, notice>>

\* a later call of process_robot_data in the same process, on the bytes c
process_robot_data_again(c) ==
    /\ pc \in {"returned", "again"}
    /\ session.runs < MaxRuns
    /\ content' = c
    /\ result' = Returned("process_robot_data", process_robot_data(c))
    /\ session' = [session EXCEPT !.runs = @ + 1]
    /\ pc' = "again"
    /\ UNCHANGED <<vret, notice>>

(***************************************************************************)
(* The session over several runs of the script (src/app.py, 26-119).  Every *)
(* interaction runs the script again from the top: the upload handling on  *)
(* the file the uploader holds, then, once data is loaded, the widgets of   *)
(* the sidebar.  st.multiselect raises when a default is no option and      *)
(* st.slider raises when value lies outside [min_value, max_value]; the     *)
(* exception ends the run.                                                  *)
(***************************************************************************)
\* files the user uploads during a session
AppUploads ==
    {Garbage}
    \cup {Bytes(d) : d \in {JList(<<>>),
                            JList(<<PoolTS[1]>>),
                            JList(<<PoolTS[3]>>),
                            JList(<<PoolTS[7]>>),
                            JList(<<PoolTS[2], PoolTS[4]>>),
                            JObj(Pair("topics", JList(<< JObj(Pair("name", JNum(5))),
                                                         JObj(Pair("name", JStr("a"))) >>)))}}

\* uploaded_file is None: lines 45-69 are skipped
NoUpload ==
    /\ pc = "idle"
    /\ content' = NoFile
    /\ notice' = "none"
    /\ pc' = "done"
    /\ UNCHANGED <<vret, result, session>>

\* every element of the sequence is an element of options
AllIn(selection, options) ==
    \A i \in 1..Len(selection) : \E j \in 1..Len(options) : options[j] = selection[i]

\* lines 95-103: the click of this run, if any
Clicked(s, click) ==
    CASE click = "play" -> [s EXCEPT !.is_playing = ~s.is_playing]
      [] click = "reset" -> [s EXCEPT !.current_time = PyInt(0), !.is_playing = FALSE]
      [] OTHER -> s

\* lines 72-103: the multiselect, the speed slider and the two buttons; the
\* multiselect returns its default, or nothing when the user cleared the selection
Sidebar(click, cleared) ==
    /\ pc = "done"
    /\ session.data # PyNone
    /\ IF AllIn(session.selected_topics, session.topics)
       THEN /\ session' =
                  Clicked([session EXCEPT !.selected_topics = IF cleared THEN <<>> ELSE @],
                          click)
            /\ pc' = "slider"
       ELSE /\ session' = session
            /\ pc' = "stopped"
    /\ UNCHANGED <<content, vret, result, notice>>

\* min_time_float <= current_time_float <= max_time_float
InRange(s) ==
    /\ s.data.time_range[1].h <= s.current_time.h
    /\ s.current_time.h <= s.data.time_range[2].h

\* lines 106-119: the slider returns its value, float(current_time), or the
\* position the user moved it to, here one end of the range
Timeline(moved, to_max) ==
    /\ pc = "slider"
    /\ IF InRange(session)
       THEN /\ session' =
                  [session EXCEPT !.current_time =
                      IF moved
                      THEN PyFloatOf(session.data.time_range[IF to_max THEN 2 ELSE 1].h)
                      ELSE PyFloatOf(session.current_time.h)]
            /\ pc' = "rendered"
       ELSE /\ session' = session
            /\ pc' = "stopped"
    /\ UNCHANGED <<content, vret, result, notice>>

\* the next interaction starts the script again
Rerun ==
    /\ \/ pc \in {"rendered", "stopped"}
       \/ pc = "done" /\ session.data = PyNone
    /\ pc' = "idle"
    /\ UNCHANGED <<content, vret, result, session, notice>>

(***************************************************************************)
(* Specifications.  Spec: one run of the application script with an        *)
(* uploaded file.  SpecFn: one call of a function of data_processor.py on  *)
(* a document.                                                             *)
(***************************************************************************)
Init ==
    /\ pc = "idle"
    /\ content = NoFile
    /\ vret = NotCalled
    /\ result = NotCalled
    /\ session = session0
    /\ notice = "none"

Next ==
    \/ \E c \in Uploads : Upload(c)
    \/ Validate
    \/ Reject
    \/ SaveTemp
    \/ Process

Spec == Init /\ [][Next]_vars

InitFn ==
    /\ pc = "call"
    /\ content \in Docs
    /\ vret = NotCalled
    /\ result = Returned("none", NotCalled)
    /\ session = session0
    /\ notice = "none"

NextFn ==
    \/ Call_validate_json_data
    \/ Call_process_robot_data
    \/ Call_extract_time_range
    \/ Call_extract_time_series
    \/ Call_extract_robot_state
    \/ Call_extract_node_paths
    \/ Call_extract_topic_metadata

SpecFn == InitFn /\ [][NextFn]_vars

\* SpecPath: one rendering of the node path view on a document, for two node names.
InitPath ==
    /\ pc = "call"
    /\ content \in {Bytes(d) : d \in PathDocs}
    /\ vret = NotCalled
    /\ result = Returned("none", NotCalled)
    /\ session = session0
    /\ notice = "none"

NextPath ==
    \/ \E s \in PathNames, e \in PathNames : vu_create_node_path_visualization(s, e)
    \/ \E b \in BOOLEAN, s \in PathNames, e \in PathNames :
           nv_create_node_path_visualization(b, s, e)

SpecPath == InitPath /\ [][NextPath]_vars

\* SpecRuns: calls of process_robot_data one after the other in one process.
InitRuns ==
    /\ pc = "call"
    /\ content \in {Bytes(d) : d \in RunDocs}
    /\ vret = NotCalled
    /\ result = Returned("none", NotCalled)
    /\ session = session0
    /\ notice = "none"

NextRuns ==
    \/ process_robot_data_alone
    \/ \E c \in {Bytes(d) : d \in RunDocs} : process_robot_data_again(c)

SpecRuns == InitRuns /\ [][NextRuns]_vars

\* SpecApp: a session of the application, run after run of the script.
NextApp ==
    \/ \E c \in AppUploads : Upload(c)
    \/ NoUpload
    \/ Validate
    \/ Reject
    \/ SaveTemp
    \/ Process
    \/ \E click \in {"none", "play", "reset"}, cleared \in BOOLEAN : Sidebar(click, cleared)
    \/ \E moved \in BOOLEAN, to_max \in BOOLEAN : Timeline(moved, to_max)
    \/ Rerun

SpecApp == Init /\ [][NextApp]_vars

(***************************************************************************)
(* Properties.  Called(fn) holds in the states of SpecFn where fn has been *)
(* called on the parsed document and has returned or raised.               *)
(***************************************************************************)
Called(fn) == pc = "returned" /\ result.fn = fn /\ content.parses

\* the three acceptance rules, as the specification words them
Rule1(data) ==
    /\ IsList(data) /\ Len(data.items) > 0
    /\ \A i \in 1..Len(data.items) : IsDict(data.items[i])
    /\ \E i \in 1..Len(data.items) :
          i <= 10 /\ \A k \in {"op", "topic", "msg"} : HasKey(data.items[i], k)
Rule2(data) ==
    IsDict(data) /\ \E k \in {"metadata", "topics", "messages"} : HasKey(data, k)
Rule3(data) ==
    \E w \in {"pose", "position", "orientation", "twist", "joint_states"} :
        Contains(PyStr(data), w)

\* C1: validate_json_data returns True for a parsed value exactly when the
\* ROSBridge rule, the mapping rule or the indicator rule holds, False otherwise.
C1_ValidateExactlyRules ==
    Called("validate_json_data") =>
        result.ret = Ok(Rule1(content.data) \/ Rule2(content.data) \/ Rule3(content.data))

\* a list accepted because its 10th item, and no earlier one, has op, topic and msg
C1_Witness ==
    /\ Called("validate_json_data")
    /\ content.data = JList(Fillers(9) \o <<Bare>>)
    /\ result.ret = Ok(TRUE)

\* C2: for the upload [] validation fails and process_robot_data is not called;
\* in every run process_robot_data is called only after validate_json_data
\* returned True for the content of that run.
C2_ProcessOnlyAfterValid ==
    /\ result # NotCalled => vret = Ok(TRUE)
    /\ pc \in {"saved", "done"} /\ vret # Ok(TRUE) => result = NotCalled /\ pc = "done"
    /\ (content = Bytes(JList(<<>>)) /\ pc \in {"validated", "saved", "done"})
          => vret = Ok(FALSE) /\ result = NotCalled /\ pc # "saved"

\* the run on [] has ended with the invalid-format message and no call of the pipeline
C2_Witness ==
    /\ content = Bytes(JList(<<>>))
    /\ pc = "done"
    /\ vret = Ok(FALSE)
    /\ result = NotCalled
    /\ notice = "invalid"

\* C3: validate_json_data never raises; for unparseable content and for parsed
\* content that fails every rule it returns False.
C3_ValidateNeverRaises ==
    (pc = "returned" /\ result.fn = "validate_json_data") =>
        /\ result.ret.ok
        /\ result.ret.v \in BOOLEAN
        /\ ~content.parses => result.ret = Ok(FALSE)
        /\ (content.parses /\ ~Rule1(content.data) /\ ~Rule2(content.data)
              /\ ~Rule3(content.data)) => result.ret = Ok(FALSE)

\* the call on bytes that are no JSON has returned False
C3_Witness ==
    /\ pc = "returned"
    /\ result.fn = "validate_json_data"
    /\ content = Garbage
    /\ result.ret = Ok(FALSE)

\* C4: every mapping with at least one of the keys metadata, topics, messages,
\* time_series, poses is accepted by validate_json_data.
C4_MappingsAccepted ==
    (/\ Called("validate_json_data")
     /\ IsDict(content.data)
     /\ \E k \in {"metadata", "topics", "messages", "time_series", "poses"} :
           HasKey(content.data, k))
    => result.ret = Ok(TRUE)

\* C5: process_robot_data returns, and does not raise, for every document that
\* passes validate_json_data.
C5_ProcessNeverRaises ==
    (/\ pc = "returned"
     /\ result.fn = "process_robot_data"
     /\ validate_json_data(content) = Ok(TRUE))
    => result.ret.ok

\* the normalized header timestamps of the messages of a list, in half units
HeaderSeconds(m) ==
    LET stamp == Part(Part(Part(m, "msg"), "header"), "stamp") IN
    IF Part(stamp, "secs").t = "num" /\ Part(stamp, "nsecs").t = "num"
    THEN {2 * Part(stamp, "secs").n + (2 * Part(stamp, "nsecs").n) \div 1000000000}
    ELSE {}
HeaderTimestamps(data) == UNION {HeaderSeconds(data.items[i]) : i \in 1..Len(data.items)}

\* C6: for every valid ROSBridge list extract_time_range returns (min, max) with
\* min <= max, both of them header timestamps of the messages, and exactly
\* (0, 100) when the messages hold no timestamp.
C6_TimeRangeOfStamps ==
    (Called("extract_time_range") /\ Rule1(content.data)) =>
        /\ result.ret.ok
        /\ result.ret.v[1].h <= result.ret.v[2].h
        /\ HeaderTimestamps(content.data) # {} =>
              /\ result.ret.v[1].h \in HeaderTimestamps(content.data)
              /\ result.ret.v[2].h \in HeaderTimestamps(content.data)
        /\ HeaderTimestamps(content.data) = {} =>
              result.ret.v = <<PyInt(0), PyInt(100)>>

\* the points of one topic have a time each, in non-decreasing order
TimeOrdered(points) ==
    /\ \A i \in 1..Len(points) : DHas(points[i], "time")
    /\ \A i \in 1..(Len(points) - 1) :
          DGet(points[i], "time").h <= DGet(points[i + 1], "time").h

\* C7: for a ROSBridge list, every point of every topic sequence returned by
\* extract_time_series has a time, and the times of a sequence are
\* non-decreasing, whatever fields the message bodies carry.
C7_SeriesTimeOrdered ==
    (Called("extract_time_series") /\ IsRosList(content.data) /\ result.ret.ok) =>
        \A g \in 1..Len(result.ret.v) : TimeOrdered(result.ret.v[g][2])

\* the capability named by the source or target object of a message body, if any
Mentioned(body, part) ==
    IF IsDict(Part(body, part)) /\ HasKey(Part(body, part), "capability")
       /\ Truthy(Get(Part(body, part), "capability"))
    THEN <<Get(Part(body, part), "capability")>>
    ELSE <<>>

\* every mention of a capability in document order, source before target
RECURSIVE Mentions(_, _)
Mentions(items, i) ==
    IF i > Len(items) THEN <<>>
    ELSE (IF HasIn(items[i], "op") /\ Get(items[i], "op") = JStr("publish")
             /\ HasIn(items[i], "topic") /\ HasIn(items[i], "msg")
             /\ IsDict(Get(items[i], "msg"))
          THEN Mentioned(Get(items[i], "msg"), "source")
               \o Mentioned(Get(items[i], "msg"), "target")
          ELSE <<>>)
         \o Mentions(items, i + 1)

\* a sequence without the later repetitions of its elements
FirstSeen(seq) ==
    LET firsts == {i \in 1..Len(seq) : \A j \in 1..(i - 1) : seq[j] # seq[i]}
    IN [k \in 1..Cardinality(firsts) |->
           seq[CHOOSE i \in firsts : Cardinality({j \in firsts : j < i}) = k - 1]]

\* C8: capability ids follow first discovery in document order: the k-th new
\* name met (source before target within a message) has id k, whether it was
\* first met as a source or as a target, and recurrences change nothing.
C8_IdsInDiscoveryOrder ==
    (Called("extract_node_paths") /\ IsRosList(content.data) /\ result.ret.ok) =>
        /\ Len(result.ret.v.capabilities)
              = Len(FirstSeen(Mentions(content.data.items, 1)))
        /\ \A k \in 1..Len(result.ret.v.capabilities) :
              /\ result.ret.v.capabilities[k][1]
                    = FirstSeen(Mentions(content.data.items, 1))[k]
              /\ result.ret.v.capabilities[k][2].id = k
              /\ result.ret.v.capabilities[k][2].name
                    = FirstSeen(Mentions(content.data.items, 1))[k]

\* cap/B is first met as a target, recurs as a source, and two more names follow
C8_Witness ==
    /\ Called("extract_node_paths")
    /\ content.data = JList(<<PoolNP[3], PoolNP[2], PoolNP[7]>>)
    /\ result.ret.ok
    /\ [k \in 1..3 |-> result.ret.v.capabilities[k][2].name]
          = <<JStr("cap/B"), JStr("cap/A"), JStr(RunnerCapability)>>
    /\ [k \in 1..3 |-> result.ret.v.capabilities[k][2].id] = <<1, 2, 3>>

\* the index of the message a connection was made from
MessageIndex(connection) ==
    CHOOSE k \in 0..Len(content.data.items) : connection.id = "conn_" \o ToString(k)

\* C9: the connections returned by extract_node_paths are in ascending order of
\* timestamp, and connections of equal timestamp, the defaulted 0 included, are
\* in the order of their messages.
C9_ConnectionsSortedStable ==
    (Called("extract_node_paths") /\ IsRosList(content.data) /\ result.ret.ok) =>
        \A i \in 1..Len(result.ret.v.connections) :
            \A j \in (i + 1)..Len(result.ret.v.connections) :
                /\ result.ret.v.connections[i].timestamp.h
                      <= result.ret.v.connections[j].timestamp.h
                /\ result.ret.v.connections[i].timestamp.h
                      = result.ret.v.connections[j].timestamp.h
                   => MessageIndex(result.ret.v.connections[i])
                         < MessageIndex(result.ret.v.connections[j])

\* two connections without timestamp keep their order and precede an earlier
\* message stamped 10 seconds
C9_Witness ==
    /\ Called("extract_node_paths")
    /\ content.data = JList(<<PoolNP[1], PoolNP[4], PoolNP[5]>>)
    /\ result.ret.ok
    /\ [i \in 1..3 |-> result.ret.v.connections[i].id] = <<"conn_1", "conn_2", "conn_0">>
    /\ [i \in 1..3 |-> result.ret.v.connections[i].timestamp.h] = <<0, 0, 20>>

\* C10: one publish message from capability a to a different capability b with
\* event e, stamped s seconds and 0 nanoseconds, yields exactly the capabilities
\* a with id 1 and b with id 2 and exactly one connection, from the node of a to
\* the node of b, with event e and the float timestamp s.
C10_ScenarioOne ==
    \A topic \in ScenarioTopics, a \in ScenarioNames, b \in ScenarioNames,
       e \in ScenarioEvents, s \in ScenarioSecs :
        (/\ Called("extract_node_paths")
         /\ a # b
         /\ content.data = Scenario(topic, a, b, e, s))
        => /\ result.ret.ok
           /\ result.ret.v.capability_count = 2
           /\ Len(result.ret.v.capabilities) = 2
           /\ result.ret.v.capabilities[1][1] = JStr(a)
           /\ result.ret.v.capabilities[1][2].id = 1
           /\ result.ret.v.capabilities[2][1] = JStr(b)
           /\ result.ret.v.capabilities[2][2].id = 2
           /\ Len(result.ret.v.connections) = 1
           /\ result.ret.v.connections[1].source = result.ret.v.capabilities[1][2].node_id
           /\ result.ret.v.connections[1].target = result.ret.v.capabilities[2][2].node_id
           /\ result.ret.v.connections[1].event = e
           /\ result.ret.v.connections[1].timestamp = [ty |-> "float", h |-> 2 * s]
           /\ [n \in 1..Len(result.ret.v.nodes) |->
                  <<result.ret.v.nodes[n].id, result.ret.v.nodes[n].name>>]
                 = <<<<"capability_1", JStr(a)>>, <<"capability_2", JStr(b)>>>>

\* the scenario of the specification: cap/A -> cap/B, event 1, timestamp 10.0
C10_Witness ==
    /\ Called("extract_node_paths")
    /\ content.data = Scenario(CapabilitiesTopic, "cap/A", "cap/B", 1, 10)
    /\ result.ret.ok
    /\ Len(result.ret.v.connections) = 1
    /\ result.ret.v.connections[1].source = "capability_1"
    /\ result.ret.v.connections[1].target = "capability_2"
    /\ result.ret.v.connections[1].event = 1
    /\ result.ret.v.connections[1].timestamp = [ty |-> "float", h |-> 20]

\* message i of a list is a publish message with a source object and a target
\* object whose event is a string that is no number
NonNumericEvent(items, i) ==
    /\ HasIn(items[i], "op") /\ Get(items[i], "op") = JStr("publish")
    /\ HasIn(items[i], "topic") /\ HasIn(items[i], "msg")
    /\ IsDict(Part(Part(items[i], "msg"), "source"))
    /\ IsDict(Part(Part(items[i], "msg"), "target"))
    /\ Part(Part(Part(items[i], "msg"), "target"), "event").t = "str"
    /\ ~IsDigitString(Part(Part(Part(items[i], "msg"), "target"), "event").s)

\* the connections of a call of extract_node_paths or of process_robot_data
ConnectionsOf(r) ==
    IF r.fn = "process_robot_data" THEN r.ret.v.node_paths.connections
    ELSE r.ret.v.connections

\* C11: a publish message whose target.event is a non-numeric string raises no
\* exception and yields its connection with event 0, in extract_node_paths alone
\* and in the whole of process_robot_data, on any topic.
C11_NonNumericEventTolerated ==
    \A i \in 1..MaxMsgs :
        (/\ Called("extract_node_paths") \/ Called("process_robot_data")
         /\ IsRosList(content.data)
         /\ i <= Len(content.data.items)
         /\ NonNumericEvent(content.data.items, i))
        => /\ result.ret.ok
           /\ \E c \in 1..Len(ConnectionsOf(result)) :
                 /\ ConnectionsOf(result)[c].id = "conn_" \o ToString(i - 1)
                 /\ ConnectionsOf(result)[c].event = 0

\* a rendering that computed the shortest path between the two selected nodes
Highlighted ==
    /\ pc = "returned"
    /\ result.fn \in {"vu_create_node_path_visualization", "nv_create_node_path_visualization"}
    /\ result.ret.ok
    /\ result.fn = "nv_create_node_path_visualization" => ~session.show_all_paths

\* C12: when the selected start node and end node are the same node a of the
\* graph, the computed shortest path is the single-node path [a].
C12_SameNodePath ==
    (/\ Highlighted
     /\ session.start_node = session.end_node
     /\ nx_has_node(result.ret.v.G, session.start_node))
    => result.ret.v.shown.shortest_path = <<session.start_node>>

\* the outcomes of the shortest-path query of a rendering, asked on G for s and e
QueryOutcomes(fn, G, s, e) ==
    IF fn = "vu_create_node_path_visualization"
    THEN {Ok(Rendered(G, shown)) : shown \in vu_shortest_path(G, s, e)}
    ELSE nv_rendered(G, FALSE, s, e)

\* both selected nodes are in G and no directed path leads from the first to the second
NoPathQuery(G, s, e) ==
    /\ nx_has_node(G, s) /\ nx_has_node(G, e)
    /\ e \notin nx_within(G, {s}, Len(G.nodes))

\* C13: a query between two nodes of the graph without a directed path between
\* them ends in an outcome that is no successful path and that no query naming
\* a node absent from the graph ends in.
C13_NoPathDistinguished ==
    (/\ Highlighted
     /\ NoPathQuery(result.ret.v.G, session.start_node, session.end_node))
    => /\ result.ret.v.shown.shortest_path = <<>>
       /\ result.ret.v.shown.notice \in {"warning", "error"}
       /\ \A s \in PathNames, e \in PathNames :
              (~nx_has_node(result.ret.v.G, s) \/ ~nx_has_node(result.ret.v.G, e))
              => result.ret \notin QueryOutcomes(result.fn, result.ret.v.G, s, e)

C16_GenericSeriesTimeOrdered ==
    (/\ Called("extract_time_series")
     /\ IsDict(content.data) /\ HasKey(content.data, "messages")
     /\ result.ret.ok)
    => \A g \in 1..Len(result.ret.v) : TimeOrdered(result.ret.v[g][2])

\* a number or a string of digits: what float() accepts among the values modelled
Coercible(x) == x.t = "num" \/ (x.t = "str" /\ IsDigitString(x.s))

\* the header stamp of the message is there and fails numeric coercion: the stamp is
\* no object, or its secs or nsecs is no number
StampFailsCoercion(msg_data) ==
    /\ IsPublish(msg_data)
    /\ HasIn(Get(msg_data, "msg"), "header")
    /\ HasIn(Get(Get(msg_data, "msg"), "header"), "stamp")
    /\ \/ ~IsDict(Get(Get(Get(msg_data, "msg"), "header"), "stamp"))
       \/ /\ HasKey(Get(Get(Get(msg_data, "msg"), "header"), "stamp"), "secs")
          /\ HasKey(Get(Get(Get(msg_data, "msg"), "header"), "stamp"), "nsecs")
          /\ \/ ~Coercible(Get(Get(Get(Get(msg_data, "msg"), "header"), "stamp"), "secs"))
             \/ ~Coercible(Get(Get(Get(Get(msg_data, "msg"), "header"), "stamp"), "nsecs"))

\* C17: a header stamp that fails numeric coercion is treated as a missing
\* timestamp: extract_time_range, extract_time_series, extract_robot_state and
\* extract_node_paths return on a document that holds one.
C17_BadStampTolerated ==
    (/\ pc = "returned" /\ content.parses
     /\ result.fn \in {"extract_time_range", "extract_time_series",
                       "extract_robot_state", "extract_node_paths"}
     /\ IsRosList(content.data)
     /\ \E i \in 1..Len(content.data.items) : StampFailsCoercion(content.data.items[i]))
    => result.ret.ok

\* the message has a source object and a target object, so both ids are resolved
Connects(msg_data) ==
    /\ IsGraphMessage(msg_data)
    /\ IsDict(Part(Get(msg_data, "msg"), "source"))
    /\ IsDict(Part(Get(msg_data, "msg"), "target"))

ConnectionsOfMessage(connections, i) ==
    {c \in 1..Len(connections) : connections[c].id = "conn_" \o ToString(i - 1)}

\* C18: a publish message with both a source and a target resolved contributes
\* exactly one connection record of source, target, topic, timestamp, event and
\* text; a message with a source object only or a target object only contributes
\* no connection and no node.
C18_OneConnectionPerPair ==
    (Called("extract_node_paths") /\ IsRosList(content.data) /\ result.ret.ok) =>
        /\ \A i \in 1..Len(content.data.items) :
              Cardinality(ConnectionsOfMessage(result.ret.v.connections, i))
                 = IF Connects(content.data.items[i]) THEN 1 ELSE 0
        /\ Len(result.ret.v.connections)
              = Cardinality({i \in 1..Len(content.data.items) : Connects(content.data.items[i])})
        /\ \A c \in 1..Len(result.ret.v.connections) :
              /\ DOMAIN result.ret.v.connections[c]
                    = {"id", "source", "target", "topic", "timestamp", "event", "text"}
              /\ result.ret.v.connections[c].source # NoneId
              /\ result.ret.v.connections[c].target # NoneId
              /\ result.ret.v.connections[c].topic
                    = Get(content.data.items[MessageIndex(result.ret.v.connections[c]) + 1],
                          "topic")
        /\ \A n \in 1..Len(result.ret.v.nodes) :
              \E c \in 1..Len(result.ret.v.connections) :
                  \/ result.ret.v.connections[c].source = result.ret.v.nodes[n].id
                  \/ result.ret.v.connections[c].target = result.ret.v.nodes[n].id

\* a message with a source only, a complete one and one with a target only: one
\* connection, made from the second message, and its two nodes
C18_Witness ==
    /\ Called("extract_node_paths")
    /\ content.data = JList(<<SourceOnly, PoolNP[1], PoolNP[3]>>)
    /\ result.ret.ok
    /\ Len(result.ret.v.connections) = 1
    /\ result.ret.v.connections[1].id = "conn_1"
    /\ Len(result.ret.v.nodes) = 2

\* C19: no two nodes of the nodes list returned by extract_node_paths have the
\* same id, however many connections name a node as source, as target or as both.
C19_NodeIdsUnique ==
    (Called("extract_node_paths") /\ result.ret.ok) =>
        \A i \in 1..Len(result.ret.v.nodes) :
            \A j \in (i + 1)..Len(result.ret.v.nodes) :
                result.ret.v.nodes[i].id # result.ret.v.nodes[j].id

\* cap/A is a source, a target and both ends of a self-loop: three connections,
\* two nodes
C19_Witness ==
    /\ Called("extract_node_paths")
    /\ content.data = JList(<<PoolNP[1], PoolNP[2], PoolNP[6]>>)
    /\ result.ret.ok
    /\ Len(result.ret.v.connections) = 3
    /\ Len(result.ret.v.nodes) = 2
    /\ \E c \in 1..3 : result.ret.v.connections[c].source = result.ret.v.connections[c].target

\* the target object of a message and the connection made from the message
TargetOf(msg_data) == Get(Get(msg_data, "msg"), "target")
ConnectionOf(connections, i) ==
    connections[CHOOSE c \in 1..Len(connections) : connections[c].id = "conn_" \o ToString(i - 1)]
NodeOf(nodes, id) == nodes[CHOOSE n \in 1..Len(nodes) : nodes[n].id = id]

\* the first 30 characters of a text, followed by "..." when the text is longer
Shortened(s) == IF Len(s) > NameLimit THEN SubSeq(s, 1, NameLimit) \o "..." ELSE s

\* the target of message i went by the priority: capability, then text, then the
\* generic target; hasText tells whether the target counts as having a text
ResolvedByPriority(node_paths, target, i, hasText) ==
    IF HasCapability(target)
    THEN ConnectionOf(node_paths.connections, i).target
            = DGet(node_paths.capabilities, Get(target, "capability")).node_id
    ELSE IF hasText
    THEN /\ ConnectionOf(node_paths.connections, i).target = "message_" \o ToString(i - 1)
         /\ NodeOf(node_paths.nodes, "message_" \o ToString(i - 1)).name
               = JStr(Shortened(Get(target, "text").s))
    ELSE ConnectionOf(node_paths.connections, i).target = "target_" \o ToString(i - 1)

\* the text of the target is absent, a string, or null
PlainText(target) ==
    HasKey(target, "text") => Get(target, "text").t \in {"str", "null"}

\* C20 as stated: the target id is the capability node id when target.capability
\* names a known capability, else message_<index> when target.text is present, its
\* name the text cut to 30 characters with "..." after a longer one, else
\* target_<index>.
C20_TargetPriority_Present ==
    (Called("extract_node_paths") /\ IsRosList(content.data) /\ result.ret.ok) =>
        \A i \in 1..Len(content.data.items) :
            (Connects(content.data.items[i]) /\ PlainText(TargetOf(content.data.items[i])))
            => ResolvedByPriority(result.ret.v, TargetOf(content.data.items[i]), i,
                                  HasKey(TargetOf(content.data.items[i]), "text"))

\* C20, amended: the text counts when it is present and not empty; an empty or
\* null text is treated as an absent one.
C20_TargetPriority ==
    (Called("extract_node_paths") /\ IsRosList(content.data) /\ result.ret.ok) =>
        \A i \in 1..Len(content.data.items) :
            (Connects(content.data.items[i]) /\ PlainText(TargetOf(content.data.items[i])))
            => ResolvedByPriority(result.ret.v, TargetOf(content.data.items[i]), i,
                                  /\ HasKey(TargetOf(content.data.items[i]), "text")
                                  /\ Truthy(Get(TargetOf(content.data.items[i]), "text")))

\* a target with a known capability and a text of more than 30 characters goes
\* to the capability node
C20_Witness ==
    /\ Called("extract_node_paths")
    /\ content.data = ToTarget(Capability("cap/B") \o Pair("text", JStr(LongText)))
    /\ result.ret.ok
    /\ result.ret.v.connections[1].target = "capability_2"

\* what one message alone leaves in state_data: nothing, or one snapshot under
\* its stringified timestamp
RosSnapshot(msg_data) ==
    IF IsGraphMessage(msg_data) /\ header_stamp(Get(msg_data, "msg")).ok
    THEN rs_store(<<>>, header_stamp(Get(msg_data, "msg")).v,
                  rs_state_info(Get(msg_data, "msg")))
    ELSE <<>>

MessageSnapshot(msg) ==
    IF HasIn(msg, "timestamp") /\ HasIn(msg, "data") /\ IsDict(Get(msg, "data"))
       /\ rs_message(<<>>, Get(msg, "timestamp"), Get(msg, "data")).ok
    THEN rs_message(<<>>, Get(msg, "timestamp"), Get(msg, "data")).v
    ELSE <<>>

\* the snapshots of the messages of a document, in document order
Snapshots(data) ==
    IF IsRosList(data)
    THEN [i \in 1..Len(data.items) |-> RosSnapshot(data.items[i])]
    ELSE [i \in 1..Len(Get(data, "messages").items) |->
              MessageSnapshot(Get(data, "messages").items[i])]

\* the last message of snaps that has a snapshot under key is message i
LastUnder(snaps, key, i) ==
    /\ Len(snaps[i]) = 1 /\ snaps[i][1][1] = key
    /\ \A j \in (i + 1)..Len(snaps) : ~(Len(snaps[j]) = 1 /\ snaps[j][1][1] = key)

\* state_data has one snapshot per key, the one of the last message under the key
LastWriteWins(state_data, snaps) ==
    /\ \A a \in 1..Len(state_data) : \A b \in (a + 1)..Len(state_data) :
           state_data[a][1] # state_data[b][1]
    /\ \A a \in 1..Len(state_data) :
           \E i \in 1..Len(snaps) :
               LastUnder(snaps, state_data[a][1], i) /\ state_data[a][2] = snaps[i][1][2]
    /\ \A i \in 1..Len(snaps) : Len(snaps[i]) = 1 => DHas(state_data, snaps[i][1][1])

\* the documents whose messages make the robot state
StateMessages(data) ==
    \/ IsRosList(data)
    \/ /\ IsDict(data) /\ HasKey(data, "messages") /\ IsList(Get(data, "messages"))
       /\ ~HasKey(data, "poses")

\* C21: extract_robot_state holds at most one snapshot per stringified timestamp,
\* and of several messages with the same key the last one in document order gives
\* the snapshot stored, in place of the earlier one.
C21_LastWriteWins ==
    (Called("extract_robot_state") /\ StateMessages(content.data) /\ result.ret.ok)
    => LastWriteWins(result.ret.v, Snapshots(content.data))

\* status and event at 5 seconds are replaced by the capability of the later message
C21_Witness ==
    /\ Called("extract_robot_state")
    /\ content.data = JList(<<PoolRS[1], PoolRS[5], PoolRS[2]>>)
    /\ result.ret.ok
    /\ Len(result.ret.v) = 2
    /\ result.ret.v[1] = <<"5.0", Pair("capability", JStr("cap/A"))>>

\* the message body has one of the fields extract_robot_state recognizes
Recognized(msg_content) ==
    \/ HasIn(Part(msg_content, "pose"), "position")
    \/ HasIn(Part(msg_content, "pose"), "orientation")
    \/ HasIn(Part(msg_content, "target"), "text")
    \/ HasIn(Part(msg_content, "target"), "event")
    \/ HasIn(Part(msg_content, "source"), "capability")

\* the publish message has a header stamp that is not zero, stringified as key
StampedAs(msg_data, key) ==
    /\ IsGraphMessage(msg_data)
    /\ header_stamp(Get(msg_data, "msg")).ok
    /\ header_stamp(Get(msg_data, "msg")).v.has
    /\ header_stamp(Get(msg_data, "msg")).v.ts.h # 0
    /\ PyNumStr(header_stamp(Get(msg_data, "msg")).v.ts) = key

\* C22: of a ROSBridge list, extract_robot_state stores a snapshot only for a
\* message with a non-zero timestamp and at least one recognized field, and no
\* stored snapshot is empty.
C22_SnapshotsOnlyOfStampedFields ==
    (Called("extract_robot_state") /\ IsRosList(content.data) /\ result.ret.ok)
    => \A a \in 1..Len(result.ret.v) :
           /\ Len(result.ret.v[a][2]) > 0
           /\ \E i \in 1..Len(content.data.items) :
                  /\ StampedAs(content.data.items[i], result.ret.v[a][1])
                  /\ Recognized(Get(content.data.items[i], "msg"))

\* one snapshot of three messages: one has no field, one is stamped zero
C22_Witness ==
    /\ Called("extract_robot_state")
    /\ content.data = JList(<<PoolRS[3], PoolRS[4], PoolRS[5]>>)
    /\ result.ret.ok
    /\ Len(result.ret.v) = 1
    /\ result.ret.v[1][1] = "7.0"

\* the records that name a topic: the messages of a ROSBridge list, the entries
\* of a topics array, or else the messages of a mapping
TopicRecords(data) ==
    IF IsRosList(data) THEN data.items
    ELSE IF HasIn(data, "topics") THEN Get(data, "topics").items
    ELSE IF HasIn(data, "messages") THEN Get(data, "messages").items
    ELSE <<>>

\* the record names the topic
NamesTopic(data, record, topic) ==
    IF IsRosList(data)
    THEN HasIn(record, "topic") /\ HasIn(record, "op") /\ Get(record, "topic") = topic
    ELSE IF HasIn(data, "topics")
    THEN HasIn(record, "name") /\ Get(record, "name") = topic
    ELSE HasIn(record, "topic") /\ Get(record, "topic") = topic

\* the entry the record alone gives its topic
Classification(data, record) ==
    IF IsRosList(data)
    THEN [type |-> JStr(tm_msg_type(record)),
          description |-> JStr("Inferred from ROS Bridge messages")]
    ELSE IF HasIn(data, "topics")
    THEN [type |-> IF HasKey(record, "type") THEN Get(record, "type") ELSE JStr("unknown"),
          description |-> IF HasKey(record, "description") THEN Get(record, "description")
                          ELSE JStr("")]
    ELSE [type |-> JStr("inferred"), description |-> JStr("")]

\* record i is the first one of the document that names the topic
FirstNaming(data, topic, i) ==
    /\ NamesTopic(data, TopicRecords(data)[i], topic)
    /\ \A j \in 1..(i - 1) : ~NamesTopic(data, TopicRecords(data)[j], topic)

\* C23: extract_topic_metadata returns one entry per distinct topic name, the
\* classification of the first record of that topic; a later record of the same
\* name never overwrites it, in a ROSBridge list, a topics array or a messages array.
C23_FirstClassificationKept ==
    (Called("extract_topic_metadata") /\ result.ret.ok)
    => /\ \A a \in 1..Len(result.ret.v) : \A b \in (a + 1)..Len(result.ret.v) :
              result.ret.v[a][1] # result.ret.v[b][1]
       /\ \A a \in 1..Len(result.ret.v) :
              \E i \in 1..Len(TopicRecords(content.data)) :
                  /\ FirstNaming(content.data, result.ret.v[a][1], i)
                  /\ result.ret.v[a][2]
                         = Classification(content.data, TopicRecords(content.data)[i])

\* the point has the numeric value, as a float, under the key
Carries(point, key, value) ==
    DHas(point, key) /\ DGet(point, key) = PyFloat(value).v

\* every numeric first-level field of the object is in the point under prefix + key
FieldsCarried(point, obj, prefix) ==
    \A i \in 1..Len(obj.kv) :
        IsNumber(obj.kv[i][2]) => Carries(point, prefix \o obj.kv[i][1], obj.kv[i][2])

\* the point has the numeric fields of the body and of its target and source
FlattenedInto(point, body) ==
    /\ FieldsCarried(point, body, "")
    /\ IsDict(Part(body, "target")) => FieldsCarried(point, Part(body, "target"), "target_")
    /\ IsDict(Part(body, "source")) => FieldsCarried(point, Part(body, "source"), "source_")

\* C24: for a ROSBridge topic other than /capabilities/events, the point of a
\* message carries every first-level numeric field of the body under its own key
\* and every first-level numeric field k of target and source under target_k and
\* source_k; none is dropped for sharing a name with another field of the point.
C24_NestedFieldsKept ==
    (Called("extract_time_series") /\ IsRosList(content.data) /\ result.ret.ok)
    => \A i \in 1..Len(content.data.items) :
           (/\ IsPublish(content.data.items[i])
            /\ Get(content.data.items[i], "topic") # JStr(CapabilitiesTopic)
            /\ IsDict(Get(content.data.items[i], "msg")))
           => \E g \in 1..Len(result.ret.v) :
                  /\ result.ret.v[g][1] = Get(content.data.items[i], "topic")
                  /\ \E p \in 1..Len(result.ret.v[g][2]) :
                         FlattenedInto(result.ret.v[g][2][p], Get(content.data.items[i], "msg"))

\* a rendering of the path view of visualization_utils on a ROSBridge list
GraphBuilt ==
    /\ pc = "returned"
    /\ result.fn = "vu_create_node_path_visualization"
    /\ result.ret.ok
    /\ IsRosList(content.data)

\* the connections that lead from the node named u to the node named v
Between(node_paths, u, v) ==
    {c \in 1..Len(node_paths.connections) :
        /\ vu_known(node_paths.nodes, node_paths.connections[c].source)
        /\ vu_known(node_paths.nodes, node_paths.connections[c].target)
        /\ vu_name(node_paths.nodes, node_paths.connections[c].source) = u
        /\ vu_name(node_paths.nodes, node_paths.connections[c].target) = v}

\* the edges of G from u to v
EdgesBetween(G, u, v) == {e \in 1..Len(G.edges) : G.edges[e][1] = <<u, v>>}

\* the graph has one edge from u to v, weighted by the number of connections
CollapsedWeighted(G, node_paths, u, v) ==
    /\ Cardinality(EdgesBetween(G, u, v)) = 1
    /\ \A e \in EdgesBetween(G, u, v) :
           /\ "weight" \in DOMAIN G.edges[e][2]
           /\ G.edges[e][2].weight = Cardinality(Between(node_paths, u, v))

\* C25: parallel connections between the same ordered pair of nodes are all in
\* the connections list, and the graph built for path-finding has a single edge
\* for the pair, whose weight is the number of connections between the pair.
C25_ParallelEdgesWeighted ==
    GraphBuilt
    => /\ Len(process_robot_data(content).v.node_paths.connections)
              = Cardinality({i \in 1..Len(content.data.items) :
                                Connects(content.data.items[i])})
       /\ \A u \in PathNames, v \in PathNames :
              Between(process_robot_data(content).v.node_paths, u, v) # {}
              => CollapsedWeighted(result.ret.v.G,
                                   process_robot_data(content).v.node_paths, u, v)

\* C26: after extract_node_paths the source id and the target id of every
\* connection are ids of nodes of the nodes list, and every node of the list is
\* the source or the target of at least one connection.
C26_ReferentialIntegrity ==
    (Called("extract_node_paths") /\ result.ret.ok)
    => /\ \A c \in 1..Len(result.ret.v.connections) :
              /\ \E n \in 1..Len(result.ret.v.nodes) :
                     result.ret.v.nodes[n].id = result.ret.v.connections[c].source
              /\ \E n \in 1..Len(result.ret.v.nodes) :
                     result.ret.v.nodes[n].id = result.ret.v.connections[c].target
       /\ \A n \in 1..Len(result.ret.v.nodes) :
              \E c \in 1..Len(result.ret.v.connections) :
                  \/ result.ret.v.connections[c].source = result.ret.v.nodes[n].id
                  \/ result.ret.v.connections[c].target = result.ret.v.nodes[n].id

\* two connections over three nodes, one of them a message node
C26_Witness ==
    /\ Called("extract_node_paths")
    /\ content.data = JList(<<PoolNP[1], PoolNP[4]>>)
    /\ result.ret.ok
    /\ Len(result.ret.v.connections) = 2
    /\ Len(result.ret.v.nodes) = 3
    /\ result.ret.v.connections[1].target = "message_1"

\* the ids of the entries of the capability registry
RegistryIds(capabilities) == {capabilities[i][2].id : i \in 1..Len(capabilities)}

\* C27: after extract_node_paths capability_count is the number of entries of
\* capabilities, their ids are exactly 1..capability_count without gap or repeat,
\* the node_id of an entry is capability_ followed by its id, and every node with
\* is_capability true has the name of an entry whose node_id is the id of the node.
C27_RegistryConsistent ==
    (Called("extract_node_paths") /\ result.ret.ok)
    => /\ result.ret.v.capability_count = Len(result.ret.v.capabilities)
       /\ RegistryIds(result.ret.v.capabilities) = 1..result.ret.v.capability_count
       /\ \A i \in 1..Len(result.ret.v.capabilities) :
              /\ \A j \in (i + 1)..Len(result.ret.v.capabilities) :
                     result.ret.v.capabilities[i][2].id # result.ret.v.capabilities[j][2].id
              /\ result.ret.v.capabilities[i][2].node_id
                     = "capability_" \o ToString(result.ret.v.capabilities[i][2].id)
       /\ \A n \in 1..Len(result.ret.v.nodes) :
              result.ret.v.nodes[n].is_capability
              => \E i \in 1..Len(result.ret.v.capabilities) :
                     /\ result.ret.v.capabilities[i][2].name = result.ret.v.nodes[n].name
                     /\ result.ret.v.capabilities[i][2].node_id = result.ret.v.nodes[n].id

\* three capabilities registered by three messages, each with a capability node
C27_Witness ==
    /\ Called("extract_node_paths")
    /\ content.data = JList(<<PoolNP[1], PoolNP[7], PoolNP[2]>>)
    /\ result.ret.ok
    /\ result.ret.v.capability_count = 3
    /\ \E n \in 1..Len(result.ret.v.nodes) :
           result.ret.v.nodes[n].is_capability /\ result.ret.v.nodes[n].id = "capability_3"

\* the publish messages of the list on the topic
PublishedOn(items, topic) ==
    {i \in 1..Len(items) : IsPublish(items[i]) /\ Get(items[i], "topic") = topic}

\* the message has a target with one of the fields of a capability event point
HasEventField(msg_data) ==
    /\ IsDict(Part(Get(msg_data, "msg"), "target"))
    /\ \E k \in {"event", "thread_id", "server_ready", "error"} :
           HasKey(Part(Get(msg_data, "msg"), "target"), k)

\* point i (from 1) of the series has index i - 1
IndexedInOrder(points) ==
    \A i \in 1..Len(points) :
        DHas(points[i], "index") /\ DGet(points[i], "index").h = 2 * (i - 1)

IndexIncreasing(points) ==
    /\ \A i \in 1..Len(points) : DHas(points[i], "index")
    /\ \A i \in 1..(Len(points) - 1) :
           DGet(points[i], "index").h < DGet(points[i + 1], "index").h

\* C28: for a ROSBridge topic other than /capabilities/events the i-th point
\* (0-based) of the series has index i and the series has one point per publish
\* message of the topic; for /capabilities/events the index values increase
\* strictly and a message whose target has none of event, thread_id, server_ready,
\* error yields no point.
C28_IndexAndPointCount ==
    (Called("extract_time_series") /\ IsRosList(content.data) /\ result.ret.ok)
    => \A g \in 1..Len(result.ret.v) :
           IF result.ret.v[g][1] = JStr(CapabilitiesTopic)
           THEN /\ IndexIncreasing(result.ret.v[g][2])
                /\ Len(result.ret.v[g][2])
                      = Cardinality({i \in PublishedOn(content.data.items, result.ret.v[g][1]) :
                                        HasEventField(content.data.items[i])})
           ELSE /\ IndexedInOrder(result.ret.v[g][2])
                /\ Len(result.ret.v[g][2])
                      = Cardinality(PublishedOn(content.data.items, result.ret.v[g][1]))

\* the three fields of the session that an upload loads
SessionData(s) == <<s.data, s.topics, s.selected_topics>>

\* a step of the upload handling of lines 45-69
UploadStep == pc \in {"idle", "read", "validated", "saved"}

\* C29: an upload that fails validation, or whose processing raises, leaves data,
\* topics and selected_topics of the session as they were before that upload;
\* they change only on an upload that validates and is processed without error.
C29_FailedUploadKeepsSession ==
    [][UploadStep =>
          \/ SessionData(session') = SessionData(session)
          \/ pc' = "done" /\ notice' = "success"]_vars

\* C30: whenever the timeline slider is rendered, upload handling having
\* succeeded, current_time lies within [min_time, max_time] of the time_range of
\* the loaded data.
C30_CurrentTimeInRange ==
    (pc = "slider" /\ notice = "success") => InRange(session)

====
